---- MODULE Spec2Model ----
(***************************************************************************)
(* Model of the t-shirt design analysis pipeline                           *)
(* (services/analysis_service.py and the services it drives).              *)
(*                                                                         *)
(* One request is one run of AnalysisService.analyze_tshirt_design.  The   *)
(* coroutine's position is pc; every external AI call is an await point,   *)
(* so the call and its return are two steps, and the market-scoring        *)
(* sub-tasks gathered at line 55 start and finish in any interleaving.     *)
(*                                                                         *)
(* Numbers: AI scores are integers, which float() keeps; the AI's sales   *)
(* estimate is in tenths and int() truncates it; overall_score and         *)
(* confidence_score are kept in tenths (round(x, 1) * 10), market weights  *)
(* in hundredths, prices in cents (round(x, 2) * 100).                     *)
(* Messages are sequences of text pieces, so that an f-string is a         *)
(* concatenation and "contains" is a sub-sequence test.                    *)
(*                                                                         *)
(* Spec is the pipeline.  SpecPricing, SpecParse, SpecOverallScore and     *)
(* SpecValidate apply one function (calculate_pricing,                     *)
(* _parse_json_response, _calculate_overall_score, validate_locations) to  *)
(* arguments drawn from bounded sets: call holds the arguments, returned   *)
(* the value.  SpecSingleMarket is the coroutine _analyze_single_market,   *)
(* suspended at its AI call.  SpecBatch is the route                       *)
(* analyze_batch_designs: in the turn of each file it awaits the bytes and *)
(* then the pipeline, whose steps are those of Spec.  SpecInsights is the  *)
(* route get_market_insights, and FairSpec is Spec with the event loop     *)
(* running every ready step and every AI call returning.                   *)
(***************************************************************************)
EXTENDS Integers, Sequences, FiniteSets, TLC

VARIABLES
    image_data,       \* the uploaded image (what PIL will find in the bytes)
    locations,        \* the requested location list
    pc,               \* position of analyze_tshirt_design
    design_features,  \* DesignFeatures returned by the AI, or NoValue
    analysis_tasks,   \* the sub-task list built at lines 43-52
    market_analyses,  \* the successful MarketAnalysis records (line 61)
    overall_score,    \* tenths, or NoValue
    result,           \* the AnalysisResult returned, or NoValue
    error,            \* the exception that escaped, or NoValue
    cause,            \* the exception caught at line 87 (e), or NoValue
    ai_calls,         \* number of AI calls issued, by kind
    log,              \* warning / error log entries of the orchestrator
    ai_responses,     \* what the external model answered, by call
    call,             \* a pure function under study and its arguments
    returned,         \* what that function returned, or NoValue before
    batch             \* local state of the route analyze_batch_designs

pipeline_vars ==
    <<image_data, locations, pc, design_features, analysis_tasks,
      market_analyses, overall_score, result, error, cause, ai_calls, log,
      ai_responses>>

vars == <<pipeline_vars, call, returned, batch>>

\* Python's None, as a record so that it compares with records
NoValue == [kind |-> "None"]

----------------------------------------------------------------------------
(* Bounds of the model *)

MaxLocations == 3

RequestLocations == {"USA", "India", "Atlantis"}

DesignScoreValues == {-200, 20, 100}

UniquenessValues == {30, 100}

MarketScoreValues == {40, 90}

\* the market scores and locations calculate_pricing is applied to
MinPricingScore == -10

MaxPricingScore == 110

PricingScores == MinPricingScore..MaxPricingScore

PricingLocations ==
    {"USA", "India", "UK", "Germany", "Japan", "Brazil", "Australia",
     "Canada", "Atlantis"}

\* the most files of one batch request
MaxFiles == 3

\* the locations _analyze_single_market is applied to on its own
SingleMarketLocations == {"USA", "Japan", "Atlantis"}

----------------------------------------------------------------------------
(* config/settings.py and config/market_data.py *)

max_file_size == 5 * 1024 * 1024

MinImageSide == 100

SupportedFormats == {"jpeg", "jpg", "png", "webp"}

\* MARKET_DATA.  base_price_range is in whole currency units
MARKET_DATA ==
    [USA |->
         [base_price_range |-> <<15, 35>>, currency |-> "USD",
          market_size |-> "large", market_maturity |-> "mature",
          competition_level |-> "high",
          trends |->
              <<"sustainability", "minimalism", "vintage", "streetwear">>,
          demographics |->
              <<"gen_z", "millennials", "gen_x">>,
          seasonal_peaks |->
              <<"summer", "back_to_school", "holidays">>],
     India |->
         [base_price_range |-> <<5, 15>>, currency |-> "INR",
          market_size |-> "massive", market_maturity |-> "growing",
          competition_level |-> "high",
          trends |->
              <<"bollywood", "cricket", "festivals", "regional_pride">>,
          demographics |->
              <<"youth", "millennials">>,
          seasonal_peaks |->
              <<"festivals", "cricket_season", "summer">>],
     UK |->
         [base_price_range |-> <<12, 28>>, currency |-> "GBP",
          market_size |-> "medium", market_maturity |-> "mature",
          competition_level |-> "medium",
          trends |->
              <<"british_humor", "football", "music", "royal_themes">>,
          demographics |->
              <<"millennials", "gen_x">>,
          seasonal_peaks |->
              <<"summer", "football_season">>],
     Germany |->
         [base_price_range |-> <<18, 40>>, currency |-> "EUR",
          market_size |-> "medium", market_maturity |-> "mature",
          competition_level |-> "medium",
          trends |->
              <<"quality", "minimalism", "eco_friendly", "engineering">>,
          demographics |->
              <<"millennials", "gen_x">>,
          seasonal_peaks |->
              <<"summer", "oktoberfest">>],
     Japan |->
         [base_price_range |-> <<20, 45>>, currency |-> "JPY",
          market_size |-> "medium", market_maturity |-> "mature",
          competition_level |-> "high",
          trends |->
              <<"anime", "kawaii", "tech", "minimalism">>,
          demographics |->
              <<"youth", "otaku", "salarymen">>,
          seasonal_peaks |->
              <<"summer", "manga_releases", "tech_events">>],
     Brazil |->
         [base_price_range |-> <<8, 20>>, currency |-> "BRL",
          market_size |-> "large", market_maturity |-> "growing",
          competition_level |-> "medium",
          trends |->
              <<"football", "carnival", "beach", "music">>,
          demographics |->
              <<"youth", "sports_fans">>,
          seasonal_peaks |->
              <<"summer", "world_cup", "carnival">>],
     Australia |->
         [base_price_range |-> <<16, 38>>, currency |-> "AUD",
          market_size |-> "medium", market_maturity |-> "mature",
          competition_level |-> "medium",
          trends |->
              <<"surf", "outdoor", "casual", "sports">>,
          demographics |->
              <<"millennials", "outdoor_enthusiasts">>,
          seasonal_peaks |->
              <<"summer", "sports_season">>],
     Canada |->
         [base_price_range |-> <<14, 32>>, currency |-> "CAD",
          market_size |-> "medium", market_maturity |-> "mature",
          competition_level |-> "medium",
          trends |->
              <<"hockey", "nature", "maple", "winter_sports">>,
          demographics |->
              <<"millennials", "gen_x">>,
          seasonal_peaks |->
              <<"summer", "hockey_season", "winter_olympics">>]]

\* "Against max 8 locations" (analysis_service.py line 161)
MaxReferenceLocations == 8

----------------------------------------------------------------------------
(* utils/exceptions.py: an exception is its class and its message *)

Exc(kind, msg) == [kind |-> kind, msg |-> msg]

\* dict.get(key, default)
Get(d, key, default) == IF key \in DOMAIN d THEN d[key] ELSE default

----------------------------------------------------------------------------
(* services/image_service.py *)

\* One uploaded payload: its length and what PIL finds in it.
Image(nbytes, decodable, format, longest_side, encodable) ==
    [nbytes |-> nbytes, decodable |-> decodable, format |-> format,
     longest_side |-> longest_side, encodable |-> encodable]

UploadedImages ==
    { Image(2048, TRUE, "jpeg", 300, TRUE),
      Image(max_file_size + 1, TRUE, "jpeg", 300, TRUE),
      Image(2048, FALSE, "none", 0, FALSE),
      Image(2048, TRUE, "gif", 300, TRUE),
      Image(2048, TRUE, "png", MinImageSide - 1, TRUE),
      Image(2048, TRUE, "png", 300, FALSE) }

\* validate_image without the minimum-dimension check of lines 33-34
validate_image_NoMinimumSide(img) ==
    IF img.nbytes > max_file_size
    THEN Exc("ImageProcessingError", <<"File size exceeds maximum limit">>)
    ELSE IF ~img.decodable
    THEN Exc("ImageProcessingError",
             <<"Invalid image file: ", "cannot identify image file">>)
    ELSE IF img.format \notin SupportedFormats
    THEN Exc("ImageProcessingError", <<"Unsupported image format">>)
    ELSE NoValue

\* ImageService.validate_image: the exception it raises, or NoValue when it
\* returns True.
validate_image(img) ==
    IF img.nbytes > max_file_size
    THEN Exc("ImageProcessingError", <<"File size exceeds maximum limit">>)
    ELSE IF ~img.decodable
    THEN Exc("ImageProcessingError",
             <<"Invalid image file: ", "cannot identify image file">>)
    ELSE IF img.format \notin SupportedFormats
    THEN Exc("ImageProcessingError", <<"Unsupported image format">>)
    ELSE IF img.longest_side < MinImageSide
    THEN Exc("ImageProcessingError", <<"Image too small (minimum 100px)">>)
    ELSE NoValue

\* ImageService.process_image: the exception it raises, or NoValue when it
\* returns the re-encoded image.
process_image(img) ==
    IF ~img.decodable
    THEN Exc("ImageProcessingError",
             <<"Image processing failed: ", "cannot identify image file">>)
    ELSE IF ~img.encodable
    THEN Exc("ImageProcessingError",
             <<"Image processing failed: ", "image file is truncated">>)
    ELSE NoValue

----------------------------------------------------------------------------
(* services/gemini_service.py: what the external model may answer *)

\* A completion either raises, or is text that is not JSON, or is text
\* holding a JSON object; a JSON object is a function from the field names
\* it has to their values.
Completion(outcome, object) == [outcome |-> outcome, object |-> object]

EmptyObject == [k \in {} |-> 0]

AIRaises == Completion("raises", EmptyObject)

AINotJson == Completion("not_json", EmptyObject)

\* text holding JSON that is not an object (an array): json.loads returns a
\* list, which has no .get
JsonArray == [json_array |-> TRUE]

AINonObject == Completion("json", JsonArray)

IsObject(x) == "json_array" \notin DOMAIN x

DesignObjects ==
    {EmptyObject} \cup
    { [visual_appeal_score |-> v, uniqueness_score |-> u] :
          v \in DesignScoreValues, u \in UniquenessValues }

MarketObjects ==
    {EmptyObject} \cup { [market_score |-> s] : s \in MarketScoreValues }

\* the ten fields the market prompt asks for (lines 181-192)
MarketFields ==
    {"market_score", "demand_level", "competition_level", "seasonal_trends",
     "target_age_groups", "market_trends", "success_probability",
     "estimated_monthly_sales", "risk_factors", "opportunities"}

\* an answer that has every field, none at its default; the sales estimate
\* is 2500.7
FullMarketObject ==
    [market_score            |-> 85,
     demand_level            |-> "high",
     competition_level       |-> "low",
     seasonal_trends         |-> <<"summer", "holidays">>,
     target_age_groups       |-> <<"26-35">>,
     market_trends           |-> <<"vintage">>,
     success_probability     |-> 55,
     estimated_monthly_sales |-> 25007,
     risk_factors            |-> <<"saturation">>,
     opportunities           |-> <<"festivals">>]

\* the answers that omit any subset of the ten fields
PartialMarketObjects ==
    { [f \in present |-> FullMarketObject[f]] :
          present \in SUBSET MarketFields }

\* answers whose numbers leave the ranges the prompt asks for (0-100 for
\* the two scores, a count of sales): the sales estimate is -500.0
OutOfRangeMarketObjects ==
    { [market_score |-> s, success_probability |-> p,
       estimated_monthly_sales |-> -5000] :
          s \in {-20, 150}, p \in {-5, 130} }

RecommendationObjects ==
    { EmptyObject, [recommendations |-> <<"rec1", "rec2">>] }

DesignCompletions ==
    {AIRaises, AINotJson, AINonObject}
        \cup { Completion("json", o) : o \in DesignObjects }

MarketCompletions ==
    {AIRaises, AINotJson, AINonObject}
        \cup { Completion("json", o) : o \in MarketObjects }

RecommendationCompletions ==
    {AIRaises, AINotJson, AINonObject}
        \cup { Completion("json", o) : o \in RecommendationObjects }

\* GeminiService._parse_json_response on a completion that did not raise:
\* the object, or the AIServiceError of lines 252-255.
_parse_json_response(resp) ==
    IF resp.outcome = "json"
    THEN resp.object
    ELSE Exc("AIServiceError", <<"Invalid JSON response from AI service">>)

IsException(x) == "msg" \in DOMAIN x

\* GeminiService.analyze_design_image, from the completion on: the
\* DesignFeatures it returns or the AIServiceError it raises.
analyze_design_image(resp) ==
    IF resp.outcome = "raises"
    THEN Exc("AIServiceError", <<"Design analysis failed: ", "api error">>)
    ELSE LET analysis_data == _parse_json_response(resp) IN
         IF IsException(analysis_data)
         THEN Exc("AIServiceError",
                  <<"Design analysis failed: ">> \o analysis_data.msg)
         ELSE IF ~IsObject(analysis_data)
         THEN Exc("AIServiceError",
                  <<"Design analysis failed: ",
                    "'list' object has no attribute 'get'">>)
         ELSE [visual_appeal_score |->
                   Get(analysis_data, "visual_appeal_score", 75),
               uniqueness_score |->
                   Get(analysis_data, "uniqueness_score", 70)]

\* GeminiService.generate_market_analysis, from the completion on: the parsed
\* object or the AIServiceError it raises.
generate_market_analysis(location, resp) ==
    IF resp.outcome = "raises"
    THEN Exc("AIServiceError",
             <<"Market analysis failed for ", location, ": ", "api error">>)
    ELSE LET parsed == _parse_json_response(resp) IN
         IF IsException(parsed)
         THEN Exc("AIServiceError",
                  <<"Market analysis failed for ", location, ": ">>
                      \o parsed.msg)
         ELSE parsed

DefaultRecommendations ==
    << "Focus on highest scoring markets first",
       "Implement dynamic pricing strategy",
       "Target social media marketing" >>

\* GeminiService.generate_recommendations, from the completion on.
generate_recommendations(resp) ==
    IF resp.outcome = "raises"
    THEN DefaultRecommendations
    ELSE LET recommendations_data == _parse_json_response(resp) IN
         IF IsException(recommendations_data)
         THEN DefaultRecommendations
         ELSE IF ~IsObject(recommendations_data)
         THEN DefaultRecommendations
         ELSE Get(recommendations_data, "recommendations", <<>>)

----------------------------------------------------------------------------
(* Arithmetic of the scores *)

\* round(p / q) for q > 0: the nearest integer, an exact tie going to the
\* even neighbour.  Python rounds the binary float, which on an exact decimal
\* tie may lie on either side of it: RoundQuotient and RoundConsistency
\* follow the float there.
RoundDiv(p, q) ==
    LET f == p \div q
        r == p % q
    IN  IF 2 * r < q THEN f
        ELSE IF 2 * r > q THEN f + 1
        ELSE IF f % 2 = 0 THEN f ELSE f + 1

RECURSIVE SqrtSearch(_, _, _)
\* the largest r in lo..hi with r * r <= x
SqrtSearch(x, lo, hi) ==
    IF lo >= hi THEN lo
    ELSE CHOOSE r \in { IF mid * mid <= x THEN SqrtSearch(x, mid, hi)
                                          ELSE SqrtSearch(x, lo, mid - 1) :
                            mid \in {(lo + hi + 1) \div 2} } : TRUE

\* floor of the square root of x, for 0 <= x < 2^31 (46340^2 < 2^31); the
\* one-element sets make x and each midpoint a value computed once
ISqrt(x) ==
    CHOOSE r \in { SqrtSearch(v, 0, IF v < 46340 THEN v ELSE 46340) :
                       v \in {x} } : TRUE

RECURSIVE SumSeq(_)
SumSeq(s) == IF s = <<>> THEN 0 ELSE Head(s) + SumSeq(Tail(s))

Min(a, b) == IF a <= b THEN a ELSE b

Max(a, b) == IF a >= b THEN a ELSE b

----------------------------------------------------------------------------
(* services/market_service.py: calculate_pricing, prices in cents *)

RECURSIVE Pow2(_)
Pow2(n) == IF n = 0 THEN 1 ELSE 2 * Pow2(n - 1)

RECURSIVE PowMod(_, _)
\* 2^k modulo m
PowMod(k, m) == IF k = 0 THEN 1 % m ELSE (2 * PowMod(k - 1, m)) % m

\* The prices are binary floats.  A price of c > 0 cents is the float nearest
\* to c/100: M * 2^(e-52) with 2^52 <= M < 2^53.  BinaryExponent is e.
BinaryExponent(c) ==
    CHOOSE e \in -7..13 :
        /\ 100 * Pow2(e + 7) <= 128 * c
        /\ 128 * c < 100 * Pow2(e + 8)

\* how many low bits of a significand are kept
SignificandBits == 8

Sign(x) == IF x > 0 THEN 1 ELSE IF x < 0 THEN -1 ELSE 0

\* the float of exponent e whose significand is the integer nearest to
\* q + r / 100
NearestSignificand(e, q, r) ==
    IF r = 0 THEN [e |-> e, M |-> q % Pow2(SignificandBits), err |-> 0]
    ELSE IF r < 50
    THEN [e |-> e, M |-> q % Pow2(SignificandBits), err |-> -r]
    ELSE [e |-> e, M |-> (q + 1) % Pow2(SignificandBits), err |-> 100 - r]

\* t is c * 2^(52-e) modulo 100 * 2^SignificandBits
FloatOfScaled(e, t) ==
    NearestSignificand(e, (t - (t % 100)) \div 100, t % 100)

FloatWithExponent(c, e, m) ==
    FloatOfScaled(e, ((c % m) * PowMod(52 - e, m)) % m)

\* The float nearest to c/100, c > 0: its exponent e, the low bits of its
\* significand M, and its error in hundredths of a unit in the last place,
\* err = 100 * M - c * 2^(52-e).
FloatOfCents(c) ==
    FloatWithExponent(c, BinaryExponent(c), 100 * Pow2(SignificandBits))

\* the error added when a sum whose low bits are low drops its d lowest
\* bits, rounding half to even (odd: the lowest kept bit is set)
RoundingError(d, low, half, odd) ==
    IF d = 0 THEN 0
    ELSE IF low < half THEN -low
    ELSE IF low > half THEN Pow2(d) - low
    ELSE IF odd THEN Pow2(d) - low ELSE -low

\* the error of the float sum of a and b, N being their exact sum modulo
\* 2^(d+1), in units of a
SumError(a, b, c, d, N) ==
    a.err + Pow2(c) * b.err
        + 100 * RoundingError(d, N % Pow2(d),
                              IF d > 0 THEN Pow2(d) \div 2 ELSE 0,
                              (N \div Pow2(d)) % 2 = 1)

\* c, d: by how much the exponents of b and of the sum exceed that of a
SumErrorOf(a, b, c, d) ==
    SumError(a, b, c, d, (a.M + b.M * Pow2(c)) % Pow2(d + 1))

FloatSumError(a, b, sum_exponent) ==
    SumErrorOf(a, b, b.e - a.e, sum_exponent - a.e)

\* The sign of (a + b) / 2 - (A + B) / 200 for the floats a, b nearest to
\* A/100 and B/100, 0 < A <= B, A + B odd: the float sum is the exact sum of
\* the two floats rounded (half to even) to the precision of the larger
\* exponent; halving is exact.
MeanErrorSign(A, B) ==
    Sign(FloatSumError(FloatOfCents(A), FloatOfCents(B),
                       BinaryExponent(A + B)))

\* the cent a halfway mean is rounded to, lo being the cent below it
RoundHalfway(lo, sign) ==
    IF sign > 0 THEN lo + 1
    ELSE IF sign < 0 THEN lo
    ELSE IF lo % 2 = 0 THEN lo ELSE lo + 1

\* round((a + b) / 2, 2) in cents for prices of A <= B cents, A >= 0: the
\* mean when A + B is even; otherwise the exact mean lies halfway between two
\* cents and round() decides by the float it is given: the cent on the side
\* of the float's error, the even cent when the float is exact.
RoundMean(A, B) ==
    IF (A + B) % 2 = 0 THEN (A + B) \div 2
    ELSE RoundHalfway((A + B) \div 2,
                      IF A = 0 THEN Sign(FloatOfCents(B).err)
                      ELSE MeanErrorSign(A, B))

\* round((final_min + final_max) / 2, 2); the two prices have one sign
recommended(final_min, final_max) ==
    IF final_min >= 0
    THEN RoundMean(Min(final_min, final_max), Max(final_min, final_max))
    ELSE -RoundMean(Min(-final_min, -final_max), Max(-final_min, -final_max))

\* the band of prices final_min, final_max
PriceRange(final_min, final_max, currency) ==
    [min |-> final_min, max |-> final_max,
     recommended |-> recommended(final_min, final_max),
     currency |-> currency]

\* lines 30-35, in hundredths
market_adjustments ==
    [Germany |-> 110, Japan |-> 115, India |-> 90, Brazil |-> 95]

\* calculate_pricing whose price falls as the score rises
calculate_pricing_Discount(location, market_score) ==
    LET market_info == Get(MARKET_DATA, location, MARKET_DATA["USA"])
        adjustment == Get(market_adjustments, location, 100)
        final_min == RoundDiv(market_info.base_price_range[1]
                                  * (150 - market_score) * adjustment, 75)
        final_max == RoundDiv(market_info.base_price_range[2]
                                  * (150 - market_score) * adjustment, 75)
    IN  [min |-> final_min, max |-> final_max,
         recommended |-> RoundDiv(final_min + final_max, 2),
         currency |-> market_info.currency]

\* calculate_pricing without the market-specific adjustments
calculate_pricing_NoAdjustment(location, market_score) ==
    LET market_info == Get(MARKET_DATA, location, MARKET_DATA["USA"])
        final_min == RoundDiv(market_info.base_price_range[1]
                                  * market_score * 100, 75)
        final_max == RoundDiv(market_info.base_price_range[2]
                                  * market_score * 100, 75)
    IN  [min |-> final_min, max |-> final_max,
         recommended |-> RoundDiv(final_min + final_max, 2),
         currency |-> market_info.currency]

\* calculate_pricing that looks the location up with market_data[location]
calculate_pricing_StrictLookup(location, market_score) ==
    IF location \notin DOMAIN MARKET_DATA
    THEN Exc("KeyError", <<location>>)
    ELSE LET market_info == MARKET_DATA[location]
             adjustment == Get(market_adjustments, location, 100)
             final_min == RoundDiv(market_info.base_price_range[1]
                                       * market_score * adjustment, 75)
             final_max == RoundDiv(market_info.base_price_range[2]
                                       * market_score * adjustment, 75)
         IN  [min |-> final_min, max |-> final_max,
              recommended |-> RoundDiv(final_min + final_max, 2),
              currency |-> market_info.currency]

\* MarketService.calculate_pricing for an integer market score.
\* base * (score / 75.0) * adjustment in currency units is
\* base * score * adjustment / 75 in cents with adjustment in hundredths; 75
\* being odd, round(.., 2) never meets a tie there.
calculate_pricing(location, market_score) ==
    LET market_info == Get(MARKET_DATA, location, MARKET_DATA["USA"])
        base_min == market_info.base_price_range[1]
        base_max == market_info.base_price_range[2]
        adjustment == Get(market_adjustments, location, 100)
    IN  PriceRange(RoundDiv(base_min * market_score * adjustment, 75),
                   RoundDiv(base_max * market_score * adjustment, 75),
                   Get(market_info, "currency", "USD"))

----------------------------------------------------------------------------
(* services/analysis_service.py: the pure parts *)

\* int(x) for a JSON number x given in tenths: truncation towards zero
int(tenths) ==
    IF tenths >= 0 THEN tenths \div 10 ELSE -((-tenths) \div 10)

\* _analyze_single_market that reads the AI's fields with ai_analysis[key]
_analyze_single_market_RequireFields(location, resp) ==
    LET ai_analysis == generate_market_analysis(location, resp)
        fields == {"market_score", "demand_level", "competition_level",
                   "seasonal_trends", "target_age_groups",
                   "estimated_monthly_sales", "market_trends",
                   "success_probability", "risk_factors", "opportunities"}
    IN
    IF location \notin DOMAIN MARKET_DATA
    THEN Exc("KeyError", <<location>>)
    ELSE IF IsException(ai_analysis)
    THEN ai_analysis
    ELSE IF ~IsObject(ai_analysis)
    THEN Exc("AttributeError", <<"'list' object has no attribute 'get'">>)
    ELSE IF fields \ DOMAIN ai_analysis # {}
    THEN Exc("KeyError", <<CHOOSE f \in fields : f \notin DOMAIN ai_analysis>>)
    ELSE [location     |-> location,
          market_score |-> ai_analysis.market_score,
          demand_level |-> ai_analysis.demand_level,
          price_range  |->
              calculate_pricing(location, ai_analysis.market_score),
          competition_level |-> ai_analysis.competition_level,
          seasonal_trends |-> ai_analysis.seasonal_trends,
          target_age_groups |-> ai_analysis.target_age_groups,
          estimated_monthly_sales |->
              int(ai_analysis.estimated_monthly_sales),
          market_trends |-> ai_analysis.market_trends,
          success_probability |-> ai_analysis.success_probability,
          risk_factors  |-> ai_analysis.risk_factors,
          opportunities |-> ai_analysis.opportunities]

\* AnalysisService._analyze_single_market, from the completion on: the
\* MarketAnalysis it returns or the exception it raises.
_analyze_single_market(location, resp) ==
    LET ai_analysis == generate_market_analysis(location, resp) IN
    IF location \notin DOMAIN MARKET_DATA
    THEN Exc("KeyError", <<location>>)
    ELSE IF IsException(ai_analysis)
    THEN ai_analysis
    ELSE IF ~IsObject(ai_analysis)
    THEN Exc("AttributeError", <<"'list' object has no attribute 'get'">>)
    ELSE [location     |-> location,
          market_score |-> Get(ai_analysis, "market_score", 70),
          demand_level |-> Get(ai_analysis, "demand_level", "medium"),
          price_range  |->
              calculate_pricing(location,
                                Get(ai_analysis, "market_score", 70)),
          competition_level |->
              Get(ai_analysis, "competition_level", "medium"),
          seasonal_trends |->
              Get(ai_analysis, "seasonal_trends", <<"year-round">>),
          target_age_groups |->
              Get(ai_analysis, "target_age_groups", <<"18-35">>),
          estimated_monthly_sales |->
              int(Get(ai_analysis, "estimated_monthly_sales", 1000 * 10)),
          market_trends |-> Get(ai_analysis, "market_trends", <<>>),
          success_probability |->
              Get(ai_analysis, "success_probability", 70),
          risk_factors  |-> Get(ai_analysis, "risk_factors", <<>>),
          opportunities |-> Get(ai_analysis, "opportunities", <<>>)]

\* size_weight, in tenths (lines 135-140)
size_weight(market_info) ==
    Get([massive |-> 15, large |-> 12, medium |-> 10, small |-> 8],
        Get(market_info, "market_size", "medium"), 10)

\* maturity_weight, in tenths (lines 142-146)
maturity_weight(market_info) ==
    Get([mature |-> 11, growing |-> 13, emerging |-> 10],
        Get(market_info, "market_maturity", "mature"), 10)

\* weight of one record, in hundredths (line 148)
weight(analysis) ==
    LET market_info == Get(MARKET_DATA, analysis.location, EmptyObject)
    IN  size_weight(market_info) * maturity_weight(market_info)

\* The weights and the two totals are binary floats.  A float x >= 0 near
\* the decimal V/scale is kept as V and its error E, an integer with
\* x * scale * 2^53 = V * 2^53 + E.  FloatBinade is the k >= -1 with
\* 2^k <= x < 2^(k+1) for the point x at F + tiny above V/scale: the floats
\* there are the multiples of 2^(k-52).  A point just below V/scale = 2^k
\* lies in the binade below, where the floats are twice as dense.
FloatBinade(V, F, tiny, scale) ==
    CHOOSE k \in -1..12 :
        IF F < 0 \/ (F = 0 /\ tiny < 0)
        THEN /\ scale * Pow2(k + 1) < 2 * V
             /\ 2 * V <= scale * Pow2(k + 2)
        ELSE /\ scale * Pow2(k + 1) <= 2 * V
             /\ 2 * V < scale * Pow2(k + 2)

\* V * 2^53 modulo m * 2^(k+1)
ScaledMod(V, k, m) == Pow2(k + 1) * (((V % m) * PowMod(52 - k, m)) % m)

\* the multiple of g nearest to a point c above one (at F - c): half goes
\* to the side of the part of the point too small to count, tiny, and to the
\* even multiple when there is none
NearestOnGrid(F, c, g, tiny, even_below) ==
    IF c = 0 THEN F
    ELSE IF 2 * c < g THEN F - c
    ELSE IF 2 * c > g THEN F - c + g
    ELSE IF tiny > 0 THEN F - c + g
    ELSE IF tiny < 0 THEN F - c
    ELSE IF even_below THEN F - c ELSE F - c + g

FloatErrorOnGrid(V, F, tiny, scale, k, g, c) ==
    NearestOnGrid(F, c, g, tiny,
                  (ScaledMod(V, k, 2 * scale) + F - c) % (2 * g) = 0)

FloatErrorInBinade(V, F, tiny, scale, k) ==
    FloatErrorOnGrid(V, F, tiny, scale, k, scale * Pow2(k + 1),
                     (F + ScaledMod(V, k, scale)) % (scale * Pow2(k + 1)))

\* the error E of the float nearest to (V * 2^53 + F + tiny) / (scale * 2^53)
FloatError(V, F, tiny, scale) ==
    IF V = 0 THEN 0
    ELSE FloatErrorInBinade(V, F, tiny, scale,
                            FloatBinade(V, F, tiny, scale))

\* the error of a literal of Vt tenths (lines 135-146)
LiteralError(Vt) == FloatError(Vt, 0, 0, 10)

\* the error, against Vs * Vm hundredths, of the float product of the
\* literals of Vs and Vm tenths whose errors are es and em
ProductError(Vs, es, Vm, em) ==
    FloatError(Vs * Vm, Vs * em + Vm * es, Sign(es * em), 100)

\* the error of the float weight of one record (line 148)
weight_error(analysis) ==
    ProductError(
        size_weight(Get(MARKET_DATA, analysis.location, EmptyObject)),
        LiteralError(
            size_weight(Get(MARKET_DATA, analysis.location, EmptyObject))),
        maturity_weight(Get(MARKET_DATA, analysis.location, EmptyObject)),
        LiteralError(
            maturity_weight(Get(MARKET_DATA, analysis.location, EmptyObject))))

RECURSIVE FloatTotals(_, _, _, _, _, _)

\* lines 149-150 for a record whose term market_score * weight is tV
\* hundredths with error tE and whose weight is w hundredths with error ew
AddTerm(analyses, i, Va, Ea, Vb, Eb, tV, tE, w, ew) ==
    CHOOSE r \in { FloatTotals(analyses, i + 1, t[1], t[2], t[3], t[4]) :
                       t \in {<<Va + tV, FloatError(Va + tV, Ea + tE, 0, 100),
                                Vb + w, FloatError(Vb + w, Eb + ew, 0, 100)>>} } :
        TRUE

AddRecord(analyses, i, Va, Ea, Vb, Eb, s, w, ew) ==
    AddTerm(analyses, i, Va, Ea, Vb, Eb,
            s * w, IF s > 0 THEN FloatError(s * w, s * ew, 0, 100) ELSE 0,
            w, ew)

\* The loop of lines 131-150 from record i on, for market scores >= 0:
\* total_weighted_score is the float of Va hundredths with error Ea,
\* total_weight the float of Vb hundredths with error Eb.
FloatTotals(analyses, i, Va, Ea, Vb, Eb) ==
    IF i > Len(analyses) THEN [Va |-> Va, Ea |-> Ea, Vb |-> Vb, Eb |-> Eb]
    ELSE AddRecord(analyses, i, Va, Ea, Vb, Eb,
                   analyses[i].market_score, weight(analyses[i]),
                   weight_error(analyses[i]))

\* the k with 2^k <= n/20 < 2^(k+1)
TieBinade(n) ==
    CHOOSE k \in -6..12 :
        /\ 20 * Pow2(k + 6) <= 64 * n
        /\ 64 * n < 20 * Pow2(k + 7)

\* the integer nearest to num/den, den > 0; half goes to the side of tiny
\* and, when there is none, to the integer that makes below + j even
NearestInteger(num, den, tiny, below) ==
    IF 2 * (num % den) > den THEN (num \div den) + 1
    ELSE IF 2 * (num % den) < den THEN num \div den
    ELSE IF tiny > 0 THEN (num \div den) + 1
    ELSE IF tiny < 0 THEN num \div den
    ELSE IF (below + (num \div den)) % 2 = 0 THEN num \div den
    ELSE (num \div den) + 1

\* round(x, 1) in tenths for a float x next to the halfway point n/20, lo
\* being the tenth below: j counts the floats from the one at or below n/20
\* (rho = 0: n/20 is a float) up to x
RoundNearTie(lo, rho, j) ==
    IF rho = 0
    THEN IF j > 0 THEN lo + 1
         ELSE IF j < 0 THEN lo
         ELSE IF lo % 2 = 0 THEN lo ELSE lo + 1
    ELSE IF j >= 1 THEN lo + 1 ELSE lo

\* In units of the spacing of the floats at n/20 the exact quotient of the
\* two totals lies Nx/(20 * Dx) above n/20, and n/20 lies rho/20 above the
\* float below it, whose significand has the parity of below.
QuotientNearTie(n, rho, Nx, Dx, Eb, below) ==
    RoundNearTie((n - 1) \div 2, rho,
                 NearestInteger(rho * Dx + Nx, 20 * Dx,
                                -Sign(Nx) * Sign(Eb), below))

QuotientInBinade(n, kq, Ea, Vb, Eb) ==
    QuotientNearTie(
        n, ((n % 20) * PowMod(52 - kq, 20)) % 20,
        (20 * Ea - n * Eb) * (IF kq < 0 THEN Pow2(-kq) ELSE 1),
        2 * (IF kq > 0 THEN Pow2(kq) ELSE 1) * Vb,
        Eb,
        ((((n % 40) * PowMod(52 - kq, 40)) % 40)
            - (((n % 20) * PowMod(52 - kq, 20)) % 20)) \div 20)

\* line 152 when the exact quotient of the two decimal totals is the
\* halfway point n/20, n odd: the float quotient decides
RoundFloatQuotient(n, totals) ==
    QuotientInBinade(n, TieBinade(n), totals.Ea, totals.Vb, totals.Eb)

\* round(total_weighted_score / total_weight, 1) in tenths, the totals
\* being Va and Vb hundredths up to the errors of their floats: these
\* count only when Va/Vb is halfway between two tenths
RoundQuotient(analyses, Va, Vb) ==
    IF (20 * Va) % Vb = 0 /\ ((20 * Va) \div Vb) % 2 = 1
    THEN RoundFloatQuotient((20 * Va) \div Vb,
                            FloatTotals(analyses, 1, 0, 0, 0, 0))
    ELSE RoundDiv(10 * Va, Vb)

\* the score divided by the number of records instead of the total weight
_calculate_overall_score_ByCount(analyses) ==
    IF Len(analyses) = 0 THEN 0
    ELSE LET total_weighted_score ==
                 SumSeq([i \in 1..Len(analyses) |->
                            analyses[i].market_score * weight(analyses[i])])
         IN  RoundDiv(10 * total_weighted_score, 100 * Len(analyses))

\* AnalysisService._calculate_overall_score, in tenths
_calculate_overall_score(analyses) ==
    IF Len(analyses) = 0 THEN 0
    ELSE LET total_weighted_score ==
                 SumSeq([i \in 1..Len(analyses) |->
                            analyses[i].market_score * weight(analyses[i])])
             total_weight ==
                 SumSeq([i \in 1..Len(analyses) |-> weight(analyses[i])])
         IN  IF total_weight > 0
             THEN RoundQuotient(analyses, total_weighted_score, total_weight)
             ELSE 0

\* round(100 - t / 10, 1) in tenths, floored at 0, for t = 10 * 2 * std_dev,
\* of which h = floor(2 * t); exact: 2 * t is the integer h
RoundConsistency(h, exact) ==
    Max(0, IF h % 2 = 0 THEN 1000 - (h \div 2)
           ELSE IF ~exact THEN 1000 - (h \div 2) - 1
           ELSE IF (1000 - (h \div 2)) % 2 = 0 THEN 1000 - (h \div 2)
           ELSE 1000 - (h \div 2) - 1)

ConsistencyOfRoot(n, d, h) == RoundConsistency(h, h * h * n * n = 1600 * d)

\* lines 174-178 for n scores with d = n * sum(s^2) - sum(s)^2
ConsistencyOfDeviation(n, d) ==
    ConsistencyOfRoot(n, d, ISqrt((1600 * d) \div (n * n)))

\* AnalysisService._calculate_market_consistency, in tenths:
\* round(max(0, 100 - 2 * std_dev), 1), where for n scores
\* std_dev = sqrt(n * sum(s^2) - sum(s)^2) / n.
_calculate_market_consistency(analyses) ==
    IF Len(analyses) < 2 THEN 800
    ELSE ConsistencyOfDeviation(
             Len(analyses),
             Len(analyses)
                 * SumSeq([i \in DOMAIN analyses |->
                              analyses[i].market_score
                                  * analyses[i].market_score])
               - SumSeq([i \in DOMAIN analyses |-> analyses[i].market_score])
                   * SumSeq([i \in DOMAIN analyses |->
                                analyses[i].market_score]))

\* AnalysisService._calculate_confidence_score, in tenths.  In hundredths
\* the sum of line 163 is 20 * min(100, v + u) + 4 * consistency(tenths)
\* + 2000 * len / 8.
_calculate_confidence_score(features, analyses) ==
    RoundDiv(Min(9500,
                 20 * Min(100, features.visual_appeal_score
                                   + features.uniqueness_score)
                     + 4 * _calculate_market_consistency(analyses)
                     + (2000 * Len(analyses)) \div MaxReferenceLocations),
             10)

----------------------------------------------------------------------------
(* services/analysis_service.py: analyze_tshirt_design *)

\* One market-scoring sub-task handed to asyncio.gather: the coroutine
\* _analyze_single_market(design_features, location), its progress and,
\* once finished, the MarketAnalysis it returned or the exception it raised.
Task(location, state, outcome) ==
    [location |-> location, state |-> state, outcome |-> outcome]

RECURSIVE BuildTasksNoSkip(_)
\* one sub-task per requested location, known or not
BuildTasksNoSkip(locs) ==
    IF locs = <<>> THEN <<>>
    ELSE <<Task(Head(locs), "created", NoValue)>>
             \o BuildTasksNoSkip(Tail(locs))

RECURSIVE BuildTasks(_)
\* lines 46-52: one sub-task per requested location that is a key of
\* MARKET_DATA, in request order
BuildTasks(locs) ==
    IF locs = <<>> THEN <<>>
    ELSE IF Head(locs) \notin DOMAIN MARKET_DATA
    THEN BuildTasks(Tail(locs))
    ELSE <<Task(Head(locs), "created", NoValue)>> \o BuildTasks(Tail(locs))

RECURSIVE UnknownLocationWarnings(_)
\* lines 47-48
UnknownLocationWarnings(locs) ==
    IF locs = <<>> THEN <<>>
    ELSE IF Head(locs) \notin DOMAIN MARKET_DATA
    THEN <<[level |-> "warning",
            text  |-> <<"Unknown location: ", Head(locs)>>]>>
             \o UnknownLocationWarnings(Tail(locs))
    ELSE UnknownLocationWarnings(Tail(locs))

\* gather that returns only once every sub-task has returned a record: a
\* sub-task that raised is waited for without end
GatherReturnsAwaitSuccess(tasks) ==
    \A i \in DOMAIN tasks :
        tasks[i].state = "finished" /\ ~IsException(tasks[i].outcome)

\* gather that returns as soon as one sub-task has raised (fail-fast)
GatherReturnsFailFast(tasks) ==
    \/ \A i \in DOMAIN tasks : tasks[i].state = "finished"
    \/ \E i \in DOMAIN tasks :
           tasks[i].state = "finished" /\ IsException(tasks[i].outcome)

\* line 55: asyncio.gather(*analysis_tasks, return_exceptions=True) returns
\* once every sub-task has returned or raised
GatherReturns(tasks) ==
    \A i \in DOMAIN tasks : tasks[i].state = "finished"

\* what gather returns: the outcomes in task order
GatherResults(tasks) == [i \in DOMAIN tasks |-> tasks[i].outcome]

RECURSIVE FoldResultsStopAtFailure(_)
\* the fold with break in place of continue at line 60
FoldResultsStopAtFailure(market_results) ==
    IF market_results = <<>> THEN <<>>
    ELSE IF IsException(Head(market_results))
    THEN <<>>
    ELSE <<Head(market_results)>>
             \o FoldResultsStopAtFailure(Tail(market_results))

RECURSIVE FoldResultsByLocation(_)
\* the fold keeping one record per location code (the last one)
FoldResultsByLocation(market_results) ==
    IF market_results = <<>> THEN <<>>
    ELSE IF IsException(Head(market_results))
    THEN FoldResultsByLocation(Tail(market_results))
    ELSE IF \E k \in 2..Len(market_results) :
                /\ ~IsException(market_results[k])
                /\ market_results[k].location = Head(market_results).location
    THEN FoldResultsByLocation(Tail(market_results))
    ELSE <<Head(market_results)>>
             \o FoldResultsByLocation(Tail(market_results))

RECURSIVE FoldResults(_)
\* lines 57-61: the results that are not exceptions, in order
FoldResults(market_results) ==
    IF market_results = <<>> THEN <<>>
    ELSE IF IsException(Head(market_results))
    THEN FoldResults(Tail(market_results))
    ELSE <<Head(market_results)>> \o FoldResults(Tail(market_results))

RECURSIVE FailureLog(_, _, _)
\* lines 58-59: one error entry per exception, naming locations[i] for the
\* result at (0-based) index i
FailureLog(market_results, locs, i) ==
    IF i > Len(market_results) THEN <<>>
    ELSE IF IsException(market_results[i])
    THEN <<[level |-> "error",
            text  |-> <<"Market analysis failed for ", locs[i], ": ">>
                          \o market_results[i].msg]>>
             \o FailureLog(market_results, locs, i + 1)
    ELSE FailureLog(market_results, locs, i + 1)

\* the pipeline without the check of lines 63-64
NoSuccessfulAnalysesUnchecked(analyses) == FALSE

\* line 63: if not market_analyses
NoSuccessfulAnalyses(analyses) == Len(analyses) = 0

\* an except clause that re-raises the exception it caught
PipelineBoundaryReraise(e) == e

\* lines 87-89: every exception raised inside the try block leaves as an
\* AnalysisServiceError built from str(e)
PipelineBoundary(e) ==
    Exc("AnalysisServiceError", <<"Analysis pipeline failed: ">> \o e.msg)

AnalysisResult(features, analyses, score, recommendations, confidence) ==
    [design_features  |-> features,
     market_analysis  |-> analyses,
     overall_score    |-> score,
     recommendations  |-> recommendations,
     confidence_score |-> confidence]

Init ==
    /\ image_data \in UploadedImages
    /\ locations \in UNION { [1..n -> RequestLocations] : n \in 0..MaxLocations }
    /\ pc = "Validating"
    /\ design_features = NoValue
    /\ analysis_tasks = <<>>
    /\ market_analyses = <<>>
    /\ overall_score = NoValue
    /\ result = NoValue
    /\ error = NoValue
    /\ cause = NoValue
    /\ ai_calls = [design |-> 0, market |-> 0, recommend |-> 0]
    /\ log = <<>>
    /\ ai_responses =
           [design |-> NoValue, market |-> <<>>, recommend |-> NoValue]
    /\ call = NoValue
    /\ returned = NoValue
    /\ batch = NoValue

\* lines 87-89: an exception e raised inside the try block, the log being
\* entries by then: the except clause logs it and raises it wrapped
Raise(e, entries) ==
    /\ pc' = "Failed"
    /\ cause' = e
    /\ log' = entries \o <<[level |-> "error",
                            text  |-> <<"Analysis failed: ">> \o e.msg]>>
    /\ error' = PipelineBoundary(e)

\* line 33
ValidateImage ==
    /\ pc = "Validating"
    /\ LET e == validate_image(image_data) IN
       IF e # NoValue
       THEN Raise(e, log)
       ELSE pc' = "Preconditioning" /\ UNCHANGED <<error, cause, log>>
    /\ UNCHANGED <<ai_responses, call, returned, batch>>
    /\ UNCHANGED <<image_data, locations, design_features, analysis_tasks,
                   market_analyses, overall_score, result, ai_calls>>

\* lines 34-39: normalise the image and issue the design-analysis call
ProcessImage ==
    /\ pc = "Preconditioning"
    /\ LET e == process_image(image_data) IN
       IF e # NoValue
       THEN Raise(e, log) /\ UNCHANGED ai_calls
       ELSE /\ pc' = "ExtractingFeatures"
            /\ ai_calls' = [ai_calls EXCEPT !.design = @ + 1]
            /\ UNCHANGED <<error, cause, log>>
    /\ UNCHANGED <<ai_responses, call, returned, batch>>
    /\ UNCHANGED <<image_data, locations, design_features, analysis_tasks,
                   market_analyses, overall_score, result>>

\* the design-analysis step with one retry of a failed call
ExtractReturnRetry(resp) ==
    /\ pc = "ExtractingFeatures"
    /\ LET r == analyze_design_image(resp) IN
       IF IsException(r) /\ ai_calls.design < 2
       THEN /\ ai_calls' = [ai_calls EXCEPT !.design = @ + 1]
            /\ ai_responses' = [ai_responses EXCEPT !.design = resp]
            /\ UNCHANGED <<pc, error, cause, design_features,
                           analysis_tasks, log>>
       ELSE IF IsException(r)
       THEN /\ Raise(r, log)
            /\ ai_responses' = [ai_responses EXCEPT !.design = resp]
            /\ UNCHANGED <<design_features, analysis_tasks, ai_calls>>
       ELSE /\ design_features' = r
            /\ analysis_tasks' = BuildTasks(locations)
            /\ ai_responses' =
                   [ai_responses EXCEPT
                       !.design = resp,
                       !.market = [i \in DOMAIN BuildTasks(locations)
                                      |-> NoValue]]
            /\ log' = log \o UnknownLocationWarnings(locations)
            /\ pc' = "ScoringMarkets"
            /\ UNCHANGED <<error, cause, ai_calls>>
    /\ UNCHANGED <<call, returned, batch>>
    /\ UNCHANGED <<image_data, locations, market_analyses, overall_score,
                   result>>

\* lines 39-55: the design-analysis call completes; on success the sub-tasks
\* are created and handed to gather
ExtractReturn(resp) ==
    /\ pc = "ExtractingFeatures"
    /\ LET r == analyze_design_image(resp) IN
       IF IsException(r)
       THEN /\ Raise(r, log)
            /\ ai_responses' = [ai_responses EXCEPT !.design = resp]
            /\ UNCHANGED <<design_features, analysis_tasks>>
       ELSE /\ design_features' = r
            /\ analysis_tasks' = BuildTasks(locations)
            /\ ai_responses' =
                   [ai_responses EXCEPT
                       !.design = resp,
                       !.market = [i \in DOMAIN BuildTasks(locations)
                                      |-> NoValue]]
            /\ log' = log \o UnknownLocationWarnings(locations)
            /\ pc' = "ScoringMarkets"
            /\ UNCHANGED <<error, cause>>
    /\ UNCHANGED <<call, returned, batch>>
    /\ UNCHANGED <<image_data, locations, market_analyses, overall_score,
                   result, ai_calls>>

\* sub-tasks awaited one after another: sub-task i starts once every
\* sub-task before it has finished
StartSubTaskSequential(i) ==
    /\ pc = "ScoringMarkets"
    /\ i \in DOMAIN analysis_tasks
    /\ analysis_tasks[i].state = "created"
    /\ \A j \in 1..(i - 1) : analysis_tasks[j].state = "finished"
    /\ analysis_tasks' = [analysis_tasks EXCEPT ![i].state = "running"]
    /\ ai_calls' = [ai_calls EXCEPT !.market = @ + 1]
    /\ UNCHANGED <<ai_responses, call, returned, batch>>
    /\ UNCHANGED <<image_data, locations, pc, design_features,
                   market_analyses, overall_score, result, error, cause,
                   log>>

\* lines 95-100: sub-task i runs up to its AI call; the event loop starts
\* the gathered sub-tasks in list order
StartSubTask(i) ==
    /\ pc = "ScoringMarkets"
    /\ i \in DOMAIN analysis_tasks
    /\ analysis_tasks[i].state = "created"
    /\ \A j \in 1..(i - 1) : analysis_tasks[j].state # "created"
    /\ analysis_tasks' = [analysis_tasks EXCEPT ![i].state = "running"]
    /\ ai_calls' = [ai_calls EXCEPT !.market = @ + 1]
    /\ UNCHANGED <<ai_responses, call, returned, batch>>
    /\ UNCHANGED <<image_data, locations, pc, design_features,
                   market_analyses, overall_score, result, error, cause,
                   log>>

\* sub-tasks that share one MarketAnalysis: the record a completing sub-task
\* builds replaces the record of every sub-task that finished before it
CompleteSubTaskSharedRecord(i, resp) ==
    /\ i \in DOMAIN analysis_tasks
    /\ analysis_tasks[i].state = "running"
    /\ analysis_tasks' =
           [j \in DOMAIN analysis_tasks |->
               IF j = i \/ analysis_tasks[j].state = "finished"
               THEN Task(analysis_tasks[j].location, "finished",
                         _analyze_single_market(analysis_tasks[i].location,
                                                resp))
               ELSE analysis_tasks[j]]
    /\ ai_responses' = [ai_responses EXCEPT !.market[i] = resp]
    /\ UNCHANGED <<call, returned, batch>>
    /\ UNCHANGED <<image_data, locations, pc, design_features,
                   market_analyses, overall_score, result, error, cause,
                   ai_calls, log>>

\* lines 98-120: the AI call of sub-task i completes and the sub-task
\* returns its MarketAnalysis or raises
CompleteSubTask(i, resp) ==
    /\ i \in DOMAIN analysis_tasks
    /\ analysis_tasks[i].state = "running"
    /\ analysis_tasks' =
           [analysis_tasks EXCEPT
               ![i] = Task(@.location, "finished",
                           _analyze_single_market(@.location, resp))]
    /\ ai_responses' = [ai_responses EXCEPT !.market[i] = resp]
    /\ UNCHANGED <<call, returned, batch>>
    /\ UNCHANGED <<image_data, locations, pc, design_features,
                   market_analyses, overall_score, result, error, cause,
                   ai_calls, log>>

\* lines 55-64: gather returns, the results are folded
FanIn ==
    /\ pc = "ScoringMarkets"
    /\ GatherReturns(analysis_tasks)
    /\ LET market_results == GatherResults(analysis_tasks)
           analyses       == FoldResults(market_results)
       IN  /\ market_analyses' = analyses
           /\ IF NoSuccessfulAnalyses(analyses)
              THEN Raise(Exc("AnalysisServiceError",
                             <<"No successful market analyses">>),
                         log \o FailureLog(market_results, locations, 1))
              ELSE /\ pc' = "Aggregating"
                   /\ log' = log \o FailureLog(market_results, locations, 1)
                   /\ UNCHANGED <<error, cause>>
    /\ UNCHANGED <<ai_responses, call, returned, batch>>
    /\ UNCHANGED <<image_data, locations, design_features, analysis_tasks,
                   overall_score, result, ai_calls>>

\* lines 67-70: the overall score, then the recommendation call is issued
Aggregate ==
    /\ pc = "Aggregating"
    /\ overall_score' = [tenths |-> _calculate_overall_score(market_analyses)]
    /\ ai_calls' = [ai_calls EXCEPT !.recommend = @ + 1]
    /\ pc' = "Recommending"
    /\ UNCHANGED <<ai_responses, call, returned, batch>>
    /\ UNCHANGED <<image_data, locations, design_features, analysis_tasks,
                   market_analyses, result, error, cause, log>>

\* lines 68-85: the recommendation call completes, the confidence score is
\* computed and the AnalysisResult returned
RecommendReturn(resp) ==
    /\ pc = "Recommending"
    /\ result' = AnalysisResult(
                     design_features, market_analyses, overall_score.tenths,
                     generate_recommendations(resp),
                     _calculate_confidence_score(design_features,
                                                 market_analyses))
    /\ pc' = "Done"
    /\ ai_responses' = [ai_responses EXCEPT !.recommend = resp]
    /\ UNCHANGED <<call, returned, batch>>
    /\ UNCHANGED <<image_data, locations, design_features, analysis_tasks,
                   market_analyses, overall_score, error, cause, ai_calls,
                   log>>

Next ==
    \/ ValidateImage
    \/ ProcessImage
    \/ \E resp \in DesignCompletions : ExtractReturn(resp)
    \/ \E i \in 1..MaxLocations : StartSubTask(i)
    \/ \E i \in 1..MaxLocations, resp \in MarketCompletions :
           CompleteSubTask(i, resp)
    \/ FanIn
    \/ Aggregate
    \/ \E resp \in RecommendationCompletions : RecommendReturn(resp)

Spec == Init /\ [][Next]_vars

----------------------------------------------------------------------------
(* Properties *)

Terminated == pc \in {"Done", "Failed"}

TaskFinished(i) == analysis_tasks[i].state = "finished"

TaskSucceeded(i) ==
    TaskFinished(i) /\ ~IsException(analysis_tasks[i].outcome)

TaskFailed(i) ==
    TaskFinished(i) /\ IsException(analysis_tasks[i].outcome)

SucceededTasks == { i \in DOMAIN analysis_tasks : TaskSucceeded(i) }

\* the k-th smallest element of a set of integers
Nth(S, k) == CHOOSE i \in S : Cardinality({ j \in S : j <= i }) = k

\* C1: when no market-scoring sub-task succeeds (no sub-task at all, only
\* unknown codes, or every sub-task failed), the analysis ends Failed with
\* AnalysisServiceError and no AnalysisResult; every AnalysisResult has a
\* non-empty market_analysis.
C1_NoMarketNoResult ==
    /\ result # NoValue => Len(result.market_analysis) > 0
    /\ (Terminated /\ SucceededTasks = {}) =>
           /\ pc = "Failed"
           /\ error.kind = "AnalysisServiceError"
           /\ result = NoValue

\* every sub-task of a request with two or more valid locations failed
C1_Witness ==
    /\ pc = "Failed"
    /\ Len(analysis_tasks) >= 2
    /\ \A i \in DOMAIN analysis_tasks : TaskFailed(i)
    /\ error.msg = <<"Analysis pipeline failed: ",
                     "No successful market analyses">>

\* C2: a failing sub-task neither cancels nor fails a sibling: when the
\* analysis has ended after scoring, every sub-task has run to completion,
\* every successful sub-task's MarketAnalysis is in the result, and the
\* analysis failed only if no sub-task succeeded.
C2_SiblingIsolation ==
    /\ pc = "Done" =>
           \A i \in DOMAIN analysis_tasks :
               /\ TaskFinished(i)
               /\ TaskSucceeded(i) =>
                      \E k \in DOMAIN result.market_analysis :
                          result.market_analysis[k] = analysis_tasks[i].outcome
    /\ (pc = "Failed" /\ design_features # NoValue) =>
           \A i \in DOMAIN analysis_tasks : TaskFailed(i)

\* a sub-task failed, a sibling dispatched after it succeeded, and the
\* analysis returned a result
C2_Witness ==
    /\ pc = "Done"
    /\ \E i, j \in DOMAIN analysis_tasks :
           i < j /\ TaskFailed(i) /\ TaskSucceeded(j)

\* C3: aggregation never begins, and the analysis is never declared failed
\* for lack of markets, while a dispatched sub-task has not terminated.
C3_FanInWaitsForAll ==
    (\/ pc \in {"Aggregating", "Recommending", "Done"}
     \/ overall_score # NoValue
     \/ pc = "Failed" /\ design_features # NoValue) =>
        \A i \in DOMAIN analysis_tasks : TaskFinished(i)

\* aggregation has begun after the first of several sub-tasks failed
C3_Witness ==
    /\ pc = "Aggregating"
    /\ Len(analysis_tasks) >= 2
    /\ TaskFailed(1)
    /\ \A i \in DOMAIN analysis_tasks : TaskFinished(i)

\* C4: the result's market_analysis has exactly one record per successful
\* sub-task (the k-th record is the k-th successful sub-task's), none for a
\* failed sub-task and none for a skipped unknown location; the sub-tasks
\* are the valid requested locations.
C4_OneRecordPerSuccess ==
    result # NoValue =>
        /\ Len(analysis_tasks) =
               Cardinality({ n \in DOMAIN locations :
                                 locations[n] \in DOMAIN MARKET_DATA })
        /\ Len(result.market_analysis) = Cardinality(SucceededTasks)
        /\ \A k \in DOMAIN result.market_analysis :
               /\ result.market_analysis[k] =
                      analysis_tasks[Nth(SucceededTasks, k)].outcome
               /\ result.market_analysis[k].location \in DOMAIN MARKET_DATA

\* three locations requested, one unknown, one failed, one succeeded
C4_Witness ==
    /\ pc = "Done"
    /\ Len(locations) = 3
    /\ Len(analysis_tasks) = 2
    /\ Cardinality(SucceededTasks) = 1
    /\ Len(result.market_analysis) = 1

\* the market scores of the records of a result
ResultScores ==
    { result.market_analysis[k].market_score :
          k \in DOMAIN result.market_analysis }

MinOf(S) == CHOOSE x \in S : \A y \in S : x <= y

MaxOf(S) == CHOOSE x \in S : \A y \in S : x >= y

\* C5 as stated: the overall score is strictly between the minimum and the
\* maximum of the surviving market scores, for every K >= 1.
C5_StrictlyBetween ==
    result # NoValue =>
        /\ 10 * MinOf(ResultScores) < result.overall_score
        /\ result.overall_score < 10 * MaxOf(ResultScores)

\* C5 (amended): the overall score is at least the minimum and at most the
\* maximum of the surviving market scores.
C5_WithinMinMax ==
    result # NoValue =>
        /\ 10 * MinOf(ResultScores) <= result.overall_score
        /\ result.overall_score <= 10 * MaxOf(ResultScores)

\* two markets of different weight and different score survive, and the
\* score is strictly inside
C5_Witness ==
    /\ pc = "Done"
    /\ Len(result.market_analysis) = 2
    /\ result.market_analysis[1].location # result.market_analysis[2].location
    /\ 10 * MinOf(ResultScores) < result.overall_score
    /\ result.overall_score < 10 * MaxOf(ResultScores)

\* C6: the confidence score of every AnalysisResult is in 0..95, whatever
\* scores the AI reported.
C6_ConfidenceInRange ==
    result # NoValue =>
        /\ result.confidence_score >= 0
        /\ result.confidence_score <= 950

\* the payload is one the image service rejects: oversized, undecodable, of
\* an unsupported format, under 100 px on its longest side, or failing in
\* processing
ImageRejected ==
    \/ image_data.nbytes > 5 * 1024 * 1024
    \/ ~image_data.decodable
    \/ image_data.format \notin {"jpeg", "jpg", "png", "webp"}
    \/ image_data.longest_side < 100
    \/ ~image_data.encodable

\* C7: when image validation or normalization fails, the caller observes an
\* ImageProcessingError.
C7_ImageFailureKind ==
    (pc = "Failed" /\ ImageRejected) => error.kind = "ImageProcessingError"

\* C8: a request whose image fails validation or normalization never makes
\* an AI call of any kind.
C8_NoAICallAfterImageFailure ==
    ImageRejected =>
        /\ ai_calls = [design |-> 0, market |-> 0, recommend |-> 0]
        /\ design_features = NoValue
        /\ pc \in {"Validating", "Preconditioning", "Failed"}

\* an image under the minimum dimension has been rejected
C8_Witness ==
    /\ pc = "Failed"
    /\ image_data.longest_side < 100
    /\ image_data.decodable
    /\ cause.kind = "ImageProcessingError"

\* s occurs in t as a contiguous run of pieces
Contains(t, s) ==
    \E k \in 0..(Len(t) - Len(s)) : SubSeq(t, k + 1, k + Len(s)) = s

\* C9: every failure that escapes is an AnalysisServiceError whose message
\* contains the message of the failure that was caught, whatever its kind;
\* nothing escapes while the pipeline has not failed.
C9_UniformError ==
    /\ pc = "Failed" =>
           /\ cause # NoValue
           /\ error.kind = "AnalysisServiceError"
           /\ Contains(error.msg, cause.msg)
           /\ result = NoValue
    /\ pc # "Failed" => error = NoValue

\* a failure of another kind, raised by the AI gateway, has escaped
C9_Witness ==
    /\ pc = "Failed"
    /\ cause.kind = "AIServiceError"
    /\ Len(cause.msg) = 2

\* C10: at most one design-analysis call is ever issued; a market-scoring or
\* recommendation call is issued only after that call returned features;
\* when it fails the analysis is Failed with AnalysisServiceError after
\* exactly one design call and no other AI call.
C10_ExtractionOnceAndFirst ==
    /\ ai_calls.design <= 1
    /\ (ai_calls.market > 0 \/ ai_calls.recommend > 0) =>
           (design_features # NoValue /\ ai_calls.design = 1)
    /\ (ai_calls.design >= 1 /\ design_features = NoValue) =>
           /\ pc \in {"ExtractingFeatures", "Failed"}
           /\ analysis_tasks = <<>>
           /\ pc = "Failed" =>
                  /\ ai_calls = [design |-> 1, market |-> 0, recommend |-> 0]
                  /\ error.kind = "AnalysisServiceError"
                  /\ cause.kind = "AIServiceError"

\* the design call failed for a request naming valid locations
C10_Witness ==
    /\ pc = "Failed"
    /\ ai_calls.design = 1
    /\ design_features = NoValue
    /\ \E n \in DOMAIN locations : locations[n] \in DOMAIN MARKET_DATA


\* the positions of the request that name a key of MARKET_DATA
KnownRequested ==
    { n \in DOMAIN locations : locations[n] \in DOMAIN MARKET_DATA }

UnknownRequested == DOMAIN locations \ KnownRequested

\* C11: a requested location that is not a key of MARKET_DATA gets no
\* sub-task and no AI call, no sub-task ever fails on a table lookup, and a
\* request that names unknown codes next to a known code whose scoring
\* succeeded ends Done.
C11_UnknownLocationSkipped ==
    /\ \A i \in DOMAIN analysis_tasks :
           /\ analysis_tasks[i].location \in DOMAIN MARKET_DATA
           /\ TaskFailed(i) => analysis_tasks[i].outcome.kind # "KeyError"
    /\ Len(analysis_tasks) <= Cardinality(KnownRequested)
    /\ ai_calls.market <= Cardinality(KnownRequested)
    /\ Len(ai_responses.market) <= Cardinality(KnownRequested)
    /\ (Terminated /\ UnknownRequested # {} /\ SucceededTasks # {}) =>
           /\ pc = "Done"
           /\ error = NoValue

\* a request with two unknown codes and one known code has ended Done
C11_Witness ==
    /\ pc = "Done"
    /\ Cardinality(UnknownRequested) = 2
    /\ Cardinality(KnownRequested) = 1
    /\ ai_calls.market = 1
    /\ Len(result.market_analysis) = 1

\* the recommendation call ended in one of the errors the fallback is for:
\* the AI call raised, or its text was not JSON, or the JSON has not the
\* shape the prompt asks for, an object holding "recommendations"
RecommendationError ==
    /\ ai_responses.recommend # NoValue
    /\ \/ ai_responses.recommend.outcome # "json"
       \/ ~IsObject(ai_responses.recommend.object)
       \/ "recommendations" \notin DOMAIN ai_responses.recommend.object

\* C12: once the recommendation call has been issued the analysis is never
\* Failed; when the call has returned the analysis is Done, and when it ended
\* in an error (the call raising, output that is not JSON, output of an
\* unexpected shape) the result carries exactly the three default strings.
C12_RecommendationsNeverFail ==
    /\ ai_calls.recommend > 0 => pc \in {"Recommending", "Done"}
    /\ ai_responses.recommend # NoValue =>
           /\ pc = "Done"
           /\ result # NoValue
           /\ error = NoValue
    /\ RecommendationError =>
           /\ Len(result.recommendations) = 3
           /\ result.recommendations =
                  << "Focus on highest scoring markets first",
                     "Implement dynamic pricing strategy",
                     "Target social media marketing" >>

\* C19: no two records of a result's market_analysis carry the same
\* location code, also when the request names a valid code more than once.
C19_DistinctLocations ==
    result # NoValue =>
        \A j, k \in DOMAIN result.market_analysis :
            j # k => result.market_analysis[j].location
                         # result.market_analysis[k].location


----------------------------------------------------------------------------
(* calculate_pricing on its own *)

\* no analysis is running
PipelineIdle ==
    /\ image_data = NoValue
    /\ locations = <<>>
    /\ pc = "Idle"
    /\ design_features = NoValue
    /\ analysis_tasks = <<>>
    /\ market_analyses = <<>>
    /\ overall_score = NoValue
    /\ result = NoValue
    /\ error = NoValue
    /\ cause = NoValue
    /\ ai_calls = [design |-> 0, market |-> 0, recommend |-> 0]
    /\ log = <<>>
    /\ ai_responses =
           [design |-> NoValue, market |-> <<>>, recommend |-> NoValue]

InitPricing ==
    /\ PipelineIdle
    /\ call \in { [fn |-> "calculate_pricing", location |-> l,
                   market_score |-> sc] :
                      l \in PricingLocations, sc \in PricingScores }
    /\ returned = NoValue
    /\ batch = NoValue

CallPricing ==
    /\ call.fn = "calculate_pricing"
    /\ returned = NoValue
    /\ returned' = calculate_pricing(call.location, call.market_score)
    /\ UNCHANGED <<pipeline_vars, call, batch>>

NextPricing == CallPricing

SpecPricing == InitPricing /\ [][NextPricing]_vars

PricingReturned == call.fn = "calculate_pricing" /\ returned # NoValue

\* C14: for a fixed location, the min, max and recommended price returned
\* for a score are each at least those returned for every lower score.
C14_PricingMonotone ==
    PricingReturned =>
        \A s1 \in PricingScores :
            s1 <= call.market_score =>
                LET p1 == calculate_pricing(call.location, s1) IN
                    /\ p1.min <= returned.min
                    /\ p1.max <= returned.max
                    /\ p1.recommended <= returned.recommended

\* a price returned for score 90 lies strictly above the one for score 50
C14_Witness ==
    /\ PricingReturned
    /\ call.location = "Japan"
    /\ call.market_score = 90
    /\ calculate_pricing("Japan", 50).max < returned.max
    /\ calculate_pricing("Japan", 50).recommended < returned.recommended

\* the adjustment of a location, in hundredths
ExpectedAdjustment(location) ==
    CASE location = "Germany" -> 110
      [] location = "Japan"   -> 115
      [] location = "India"   -> 90
      [] location = "Brazil"  -> 95
      [] OTHER                -> 100

Abs(x) == IF x < 0 THEN -x ELSE x

\* C15: for a reference location, min and max are the cent nearest to
\* base * score / 75 * adjustment, recommended is a cent nearest to their
\* mean, the currency is the location's; USA with score 80 gives min 16.00
\* and max 37.33.
C15_PricingFormula ==
    (PricingReturned /\ call.location \in DOMAIN MARKET_DATA) =>
        LET base == MARKET_DATA[call.location].base_price_range
            exact_min == base[1] * call.market_score
                             * ExpectedAdjustment(call.location)
            exact_max == base[2] * call.market_score
                             * ExpectedAdjustment(call.location)
        IN  /\ 2 * Abs(75 * returned.min - exact_min) <= 75
            /\ 2 * Abs(75 * returned.max - exact_max) <= 75
            /\ Abs(2 * returned.recommended
                       - (returned.min + returned.max)) <= 1
            /\ returned.currency = MARKET_DATA[call.location].currency
            /\ (call.location = "USA" /\ call.market_score = 80) =>
                   returned.min = 1600 /\ returned.max = 3733

\* the band returned for an adjusted market differs from the unadjusted one
C15_Witness ==
    /\ PricingReturned
    /\ call.location = "Germany"
    /\ call.market_score = 80
    /\ returned.min = 2112
    /\ returned.max = 4693
    /\ returned.currency = "EUR"

\* C16: for a location that is not a key of MARKET_DATA calculate_pricing
\* raises nothing and returns the band of the USA entry (base range 15..35,
\* adjustment 1.0, currency USD).
C16_UnknownLocationPricedAsUSA ==
    (PricingReturned /\ call.location \notin DOMAIN MARKET_DATA) =>
        /\ ~IsException(returned)
        /\ returned = calculate_pricing("USA", call.market_score)
        /\ 2 * Abs(75 * returned.min - 15 * call.market_score * 100) <= 75
        /\ 2 * Abs(75 * returned.max - 35 * call.market_score * 100) <= 75
        /\ returned.currency = "USD"

\* a price was returned for an unknown location
C16_Witness ==
    /\ PricingReturned
    /\ call.location = "Atlantis"
    /\ call.market_score = 80
    /\ returned.min = 1600


----------------------------------------------------------------------------
(* _analyze_single_market on its own *)

\* what the AI may answer to the market call of the sub-task
SingleMarketCompletions ==
    {AIRaises, AINotJson, AINonObject} \cup
        { Completion("json", o) :
              o \in PartialMarketObjects \cup OutOfRangeMarketObjects }

\* the coroutine is created for a location; call.at is its position and
\* call.response the AI's answer once it has come
InitSingleMarket ==
    /\ PipelineIdle
    /\ call \in { [fn |-> "_analyze_single_market", location |-> l,
                   at |-> "created", response |-> NoValue] :
                      l \in SingleMarketLocations }
    /\ returned = NoValue
    /\ batch = NoValue

\* lines 95-98: the first pass of the coroutine looks the location up,
\* hands the market call to the AI service and is suspended at line 98
CallSingleMarket ==
    /\ call.fn = "_analyze_single_market"
    /\ call.at = "created"
    /\ IF call.location \notin DOMAIN MARKET_DATA
       THEN /\ returned' = Exc("KeyError", <<call.location>>)
            /\ call' = [call EXCEPT !.at = "closed"]
            /\ UNCHANGED ai_calls
       ELSE /\ ai_calls' = [ai_calls EXCEPT !.market = @ + 1]
            /\ call' = [call EXCEPT !.at = "awaiting"]
            /\ UNCHANGED returned
    /\ UNCHANGED <<image_data, locations, pc, design_features,
                   analysis_tasks, market_analyses, overall_score, result,
                   error, cause, log, ai_responses, batch>>

\* lines 98-120: the answer has come, the coroutine is resumed and ends
ReturnSingleMarket(resp) ==
    /\ call.fn = "_analyze_single_market"
    /\ call.at = "awaiting"
    /\ returned' = _analyze_single_market(call.location, resp)
    /\ call' = [call EXCEPT !.at = "closed", !.response = resp]
    /\ UNCHANGED <<pipeline_vars, batch>>

NextSingleMarket ==
    \/ CallSingleMarket
    \/ \E resp \in SingleMarketCompletions : ReturnSingleMarket(resp)

SpecSingleMarket == InitSingleMarket /\ [][NextSingleMarket]_vars

\* the sub-task got a JSON object from the AI and has ended
SingleMarketAnswered ==
    /\ call.fn = "_analyze_single_market"
    /\ returned # NoValue
    /\ call.response # NoValue
    /\ call.response.outcome = "json"
    /\ IsObject(call.response.object)

\* the documented default of each field of the AI's market answer
DocumentedDefault ==
    [market_score            |-> 70,
     demand_level            |-> "medium",
     competition_level       |-> "medium",
     seasonal_trends         |-> <<"year-round">>,
     target_age_groups       |-> <<"18-35">>,
     estimated_monthly_sales |-> 1000,
     success_probability     |-> 70,
     market_trends           |-> <<>>,
     risk_factors            |-> <<>>,
     opportunities           |-> <<>>]

\* C13 as stated: whatever subset of the ten fields the AI's JSON object
\* omits, the sub-task returns a complete MarketAnalysis, every omitted field
\* at its documented default and every present field at the AI's value (the
\* sales estimate, kept in tenths by the AI's object, included).
C13_PresentFieldsKept ==
    SingleMarketAnswered =>
        /\ ~IsException(returned)
        /\ DOMAIN returned =
               {"location", "price_range"} \cup DOMAIN DocumentedDefault
        /\ \A f \in DOMAIN DocumentedDefault :
               IF f \notin DOMAIN call.response.object
               THEN returned[f] = DocumentedDefault[f]
               ELSE IF f = "estimated_monthly_sales"
               THEN 10 * returned[f] = call.response.object[f]
               ELSE returned[f] = call.response.object[f]

\* C13, amended: whatever subset of the ten fields the AI's JSON object
\* omits, the sub-task returns a complete MarketAnalysis, every omitted field
\* at its documented default and every present field at the AI's value,
\* except the sales estimate, of which int() keeps the integer part (the
\* estimate cut towards zero).
C13_FieldDefaults ==
    SingleMarketAnswered =>
        LET ai == call.response.object IN
        /\ ~IsException(returned)
        /\ DOMAIN returned =
               {"location", "price_range"} \cup DOMAIN DocumentedDefault
        /\ returned.location = call.location
        /\ \A f \in DOMAIN DocumentedDefault :
               IF f \notin DOMAIN ai
               THEN returned[f] = DocumentedDefault[f]
               ELSE IF f = "estimated_monthly_sales"
               THEN IF ai[f] >= 0
                    THEN /\ 10 * returned[f] <= ai[f]
                         /\ ai[f] < 10 * (returned[f] + 1)
                    ELSE /\ 10 * (returned[f] - 1) < ai[f]
                         /\ ai[f] <= 10 * returned[f]
               ELSE returned[f] = ai[f]

\* an answer with only demand_level and estimated_monthly_sales gave a
\* complete record
C13_Witness ==
    /\ SingleMarketAnswered
    /\ DOMAIN call.response.object =
           {"demand_level", "estimated_monthly_sales"}
    /\ returned.demand_level = "high"
    /\ returned.estimated_monthly_sales = 2500
    /\ returned.market_score = 70
    /\ returned.seasonal_trends = <<"year-round">>
    /\ returned.opportunities = <<>>

\* C20: in every interleaving, the record of each sub-task that succeeded
\* names the location the sub-task was created for, holds the market score
\* of that sub-task's own AI answer (70 when omitted) and the price band of
\* calculate_pricing for that location and score; every record of the result
\* is the record of one sub-task.
C20_RecordAttributable ==
    /\ \A i \in DOMAIN analysis_tasks :
           TaskSucceeded(i) =>
               LET record == analysis_tasks[i].outcome
                   answer == ai_responses.market[i].object
               IN  /\ record.location = analysis_tasks[i].location
                   /\ record.location = locations[Nth(KnownRequested, i)]
                   /\ record.market_score =
                          (IF "market_score" \in DOMAIN answer
                           THEN answer.market_score ELSE 70)
                   /\ record.price_range =
                          calculate_pricing(analysis_tasks[i].location,
                                            record.market_score)
    /\ result # NoValue =>
           \A k \in DOMAIN result.market_analysis :
               \E i \in SucceededTasks :
                   result.market_analysis[k] = analysis_tasks[i].outcome

\* two sub-tasks for different locations succeeded with different scores
\* and price bands, and the result is out
C20_Witness ==
    /\ pc = "Done"
    /\ Len(analysis_tasks) = 2
    /\ analysis_tasks[1].location # analysis_tasks[2].location
    /\ TaskSucceeded(1) /\ TaskSucceeded(2)
    /\ analysis_tasks[1].outcome.market_score
           # analysis_tasks[2].outcome.market_score
    /\ analysis_tasks[1].outcome.price_range.currency
           # analysis_tasks[2].outcome.price_range.currency


----------------------------------------------------------------------------
(* services/gemini_service.py: _parse_json_response on the text *)

(* A response text is a sequence of tokens.  FENCE, three backquotes, is   *)
(* a token wherever it occurs, a string literal included, and no other     *)
(* token holds a backquote; only the token "json" starts with the letters  *)
(* json.  A search for the fence, or for the fence followed by json, in    *)
(* the characters is therefore a search for <<FENCE>> or <<FENCE, "json">> *)
(* in the tokens.                                                          *)

FENCE == "FENCE"

Whitespace == {" ", "\n"}

\* the tokens of one character
SingleCharacter == {"{", "}", ":", "\"", "a", "1", " ", "\n"}

\* a token of several characters without its last character
WithoutLastCharacter(token) ==
    CASE token = FENCE  -> "BACKQUOTE BACKQUOTE"
      [] token = "json" -> "jso"
      [] token = "Here is the analysis:" -> "Here is the analysis"
      [] token = "Hope this helps!" -> "Hope this helps"
      [] OTHER -> ""

\* the JSON object texts the AI answers with, and json.loads of each
JsonTexts ==
    { <<"{", "\"", "a", "\"", ":", "1", "}">>,
      <<"{", "\"", "a", "\"", ":", "\"", FENCE, "\"", "}">>,
      <<"{", "\"", "a", "\"", ":", "\"", FENCE, "json", "\"", "}">> }

JsonValue(text) ==
    CASE text = <<"{", "\"", "a", "\"", ":", "1", "}">> -> [a |-> <<"1">>]
      [] text = <<"{", "\"", "a", "\"", ":", "\"", FENCE, "\"", "}">> ->
             [a |-> <<"\"", FENCE, "\"">>]
      [] text = <<"{", "\"", "a", "\"", ":", "\"", FENCE, "json", "\"", "}">> ->
             [a |-> <<"\"", FENCE, "json", "\"">>]

\* the same object written with spaces after "{" and ":" and before "}"
Spaced(text) ==
    <<"{", " ">> \o SubSeq(text, 2, 5) \o <<" ">>
        \o SubSeq(text, 6, Len(text) - 1) \o <<" ", "}">>

NotWhitespace(token) == token \notin Whitespace

\* json.loads(text).  Whitespace occurs between the tokens of an object
\* only, never inside a string literal, so a text is one of the objects
\* exactly when its tokens other than whitespace are; every other text the
\* parser can be left with (a prefix or a suffix of an object, a fence,
\* prose, nothing) is no JSON.
json_loads(text) ==
    IF SelectSeq(text, NotWhitespace) \in JsonTexts
    THEN JsonValue(SelectSeq(text, NotWhitespace))
    ELSE Exc("JSONDecodeError", <<"Expecting value">>)

RECURSIVE lstrip(_)
lstrip(text) ==
    IF text # <<>> /\ Head(text) \in Whitespace
    THEN lstrip(Tail(text)) ELSE text

RECURSIVE rstrip(_)
rstrip(text) ==
    IF text # <<>> /\ text[Len(text)] \in Whitespace
    THEN rstrip(SubSeq(text, 1, Len(text) - 1)) ELSE text

\* str.strip()
strip(text) == rstrip(lstrip(text))

\* does pattern occur in text at token i
OccursAt(text, pattern, i) ==
    /\ i >= 1
    /\ i + Len(pattern) - 1 <= Len(text)
    /\ SubSeq(text, i, i + Len(pattern) - 1) = pattern

\* pattern in text
Contains_(text, pattern) ==
    \E i \in 1..Len(text) : OccursAt(text, pattern, i)

\* text.find(pattern, start): the first token at or after start where
\* pattern occurs, or -1
find(text, pattern, start) ==
    IF \E i \in start..Len(text) : OccursAt(text, pattern, i)
    THEN CHOOSE i \in start..Len(text) :
             /\ OccursAt(text, pattern, i)
             /\ \A j \in start..(i - 1) : ~OccursAt(text, pattern, j)
    ELSE -1

\* text[start:end], start a token position, end a token position or -1:
\* with -1 the slice ends before the last character of the text
slice(text, start, end) ==
    IF end # -1 THEN SubSeq(text, start, end - 1)
    ELSE IF start > Len(text) THEN <<>>
    ELSE IF text[Len(text)] \in SingleCharacter
    THEN SubSeq(text, start, Len(text) - 1)
    ELSE SubSeq(text, start, Len(text) - 1)
             \o <<WithoutLastCharacter(text[Len(text)])>>

\* GeminiService._parse_json_response (lines 234-255) on a response text
_parse_json_response_text(response_text) ==
    LET text == strip(response_text)
        extracted ==
            IF Contains_(text, <<FENCE, "json">>)
            THEN LET start == find(text, <<FENCE, "json">>, 1) + 2
                     end   == find(text, <<FENCE>>, start)
                 IN  strip(slice(text, start, end))
            ELSE IF Contains_(text, <<FENCE>>)
            THEN LET start == find(text, <<FENCE>>, 1) + 1
                     end   == find(text, <<FENCE>>, start)
                 IN  strip(slice(text, start, end))
            ELSE text
        value == json_loads(extracted)
    IN  IF IsException(value)
        THEN Exc("AIServiceError", <<"Invalid JSON response from AI service">>)
        ELSE value

\* what the AI puts before and after the object or the fenced block
Before == { <<>>, <<"\n">>, <<"Here is the analysis:", "\n">> }

After == { <<>>, <<" ">>, <<"\n", "Hope this helps!">> }

Wrappings == {"unfenced", "fence", "json fence"}

\* the response text: the object J in a wrapping, between pre and post
Wrapped(J, wrapping, pre, post) ==
    CASE wrapping = "unfenced" -> pre \o J \o post
      [] wrapping = "fence" ->
             pre \o <<FENCE, "\n">> \o J \o <<"\n", FENCE>> \o post
      [] wrapping = "json fence" ->
             pre \o <<FENCE, "json", "\n">> \o J \o <<"\n", FENCE>> \o post

InitParse ==
    /\ PipelineIdle
    /\ call \in { [fn |-> "_parse_json_response", J |-> J, wrapping |-> w,
                   pre |-> pre, post |-> post,
                   response_text |-> Wrapped(J, w, pre, post)] :
                      J \in JsonTexts \cup { Spaced(t) : t \in JsonTexts },
                      w \in Wrappings, pre \in Before, post \in After }
    /\ returned = NoValue
    /\ batch = NoValue

CallParse ==
    /\ call.fn = "_parse_json_response"
    /\ returned = NoValue
    /\ returned' = _parse_json_response_text(call.response_text)
    /\ UNCHANGED <<pipeline_vars, call, batch>>

NextParse == CallParse

SpecParse == InitParse /\ [][NextParse]_vars

\* C17: for every JSON object text J, also one with a fence sequence inside
\* a string value, and whatever whitespace or prose surrounds it, the parser
\* returns the value of J, the same for J unfenced, in a fence and in a
\* json fence.
C17_SameValueForWrappings ==
    (call.fn = "_parse_json_response" /\ returned # NoValue) =>
        /\ returned = json_loads(call.J)
        /\ \A w \in Wrappings :
               _parse_json_response_text(
                   Wrapped(call.J, w, call.pre, call.post)) = returned


----------------------------------------------------------------------------
(* api/routes/analysis.py: analyze_batch_designs *)

GoodDesign ==
    Completion("json", [visual_appeal_score |-> 100, uniqueness_score |-> 30])

GoodMarket == Completion("json", [market_score |-> 90])

\* what the external model may answer during a batch request
BatchDesignCompletions == {GoodDesign, AIRaises}

BatchMarketCompletions == {GoodMarket, AIRaises}

BatchRecommendationCompletions == {AINotJson, AIRaises}

\* AnalysisService.analyze_tshirt_design from call to return, the external
\* model answering as in ai: the AnalysisResult returned or the
\* AnalysisServiceError raised
analyze_tshirt_design(img, location_list, ai) ==
    IF validate_image(img) # NoValue
    THEN PipelineBoundary(validate_image(img))
    ELSE IF process_image(img) # NoValue
    THEN PipelineBoundary(process_image(img))
    ELSE LET features == analyze_design_image(ai.design) IN
    IF IsException(features)
    THEN PipelineBoundary(features)
    ELSE LET tasks == BuildTasks(location_list)
             finished ==
                 [i \in DOMAIN tasks |->
                     Task(tasks[i].location, "finished",
                          _analyze_single_market(tasks[i].location,
                                                 ai.market[i]))]
             analyses == FoldResults(GatherResults(finished))
         IN
    IF NoSuccessfulAnalyses(analyses)
    THEN PipelineBoundary(Exc("AnalysisServiceError",
                              <<"No successful market analyses">>))
    ELSE AnalysisResult(features, analyses,
                        _calculate_overall_score(analyses),
                        generate_recommendations(ai.recommend),
                        _calculate_confidence_score(features, analyses))

\* an upload: its name and its bytes
UploadFile(filename, img) == [filename |-> filename, image_data |-> img]

BatchFilenames == {"a.png", "b.png"}

BatchImages ==
    { Image(2048, TRUE, "jpeg", 300, TRUE),
      Image(2048, FALSE, "none", 0, FALSE) }

\* the locations parameter, cut at its commas: "USA, India" and "Atlantis"
BatchLocations ==
    { << <<"USA">>, <<" ", "India">> >>, << <<"Atlantis">> >> }

\* line 59: [loc.strip() for loc in locations.split(",")]
location_list(pieces) ==
    [i \in DOMAIN pieces |->
        IF strip(pieces[i]) = <<>> THEN "" ELSE strip(pieces[i])[1]]

\* The route is a coroutine on the event loop: batch.at is its position
\* ("called": the request is in, its dependencies not yet resolved; then, in
\* the turn of the file at batch.position, "loop": at line 64, "reading":
\* suspended at line 66, "analyzing": suspended at line 67 while
\* analyze_tshirt_design runs).  gemini_api_key tells whether
\* settings.gemini_api_key is set.  answers keeps what the external model
\* answered in each turn, logged the entries of the route's own logger.
InitBatch ==
    /\ PipelineIdle
    /\ call = NoValue
    /\ returned = NoValue
    /\ batch \in
           { [files      |-> files,
              locations  |-> pieces,
              gemini_api_key |-> key,
              position   |-> 1,
              at         |-> "called",
              answers    |-> <<>>,
              results    |-> <<>>,
              errors     |-> <<>>,
              logged     |-> <<>>,
              successful |-> 0,
              response   |-> NoValue] :
                 files \in UNION { [1..n ->
                                       { UploadFile(name, img) :
                                             name \in BatchFilenames,
                                             img \in BatchImages }] :
                                   n \in 0..MaxFiles },
                 pieces \in BatchLocations,
                 key \in BOOLEAN }

\* line 55, Depends(get_analysis_service): AnalysisService() builds a
\* GeminiService, whose constructor raises ValueError without an API key
\* (gemini_service.py 21-23); the exception ends the request before the body
\* of the route runs.  Otherwise lines 59-62 set up the loop.
BatchDepends ==
    /\ batch # NoValue
    /\ batch.at = "called"
    /\ IF batch.gemini_api_key
       THEN batch' = [batch EXCEPT !.at = "loop"]
       ELSE batch' = [batch EXCEPT
                         !.at = "failed",
                         !.response =
                             Exc("ValueError",
                                 <<"GEMINI_API_KEY not configured">>)]
    /\ UNCHANGED <<pipeline_vars, call, returned>>

\* lines 64-66: the turn of the next file begins, the route awaits its bytes
BatchRead ==
    /\ batch # NoValue
    /\ batch.response = NoValue
    /\ batch.at = "loop"
    /\ batch.position <= Len(batch.files)
    /\ batch' = [batch EXCEPT !.at = "reading"]
    /\ UNCHANGED <<pipeline_vars, call, returned>>

\* lines 66-67: the bytes have come; analyze_tshirt_design is called on them
\* and the route waits for it
BatchAnalyze ==
    /\ batch # NoValue
    /\ batch.at = "reading"
    /\ batch' = [batch EXCEPT !.at = "analyzing"]
    /\ image_data' = batch.files[batch.position].image_data
    /\ locations' = location_list(batch.locations)
    /\ pc' = "Validating"
    /\ UNCHANGED <<design_features, analysis_tasks, market_analyses,
                   overall_score, result, error, cause, ai_calls, log,
                   ai_responses, call, returned>>

\* the run of analyze_tshirt_design has ended and its locals are gone; the
\* AI calls it issued and the entries it logged stay
AnalysisLeft ==
    /\ image_data' = NoValue
    /\ locations' = <<>>
    /\ pc' = "Idle"
    /\ design_features' = NoValue
    /\ analysis_tasks' = <<>>
    /\ market_analyses' = <<>>
    /\ overall_score' = NoValue
    /\ result' = NoValue
    /\ error' = NoValue
    /\ cause' = NoValue
    /\ ai_responses' =
           [design |-> NoValue, market |-> <<>>, recommend |-> NoValue]
    /\ UNCHANGED <<ai_calls, log>>

\* lines 67-80: analyze_tshirt_design has returned or raised; the turn ends
\* with one more result or one more error
BatchFile ==
    /\ batch # NoValue
    /\ batch.at = "analyzing"
    /\ pc \in {"Done", "Failed"}
    /\ IF pc = "Failed"
       THEN batch' = [batch EXCEPT
                         !.position = @ + 1,
                         !.at = "loop",
                         !.answers = Append(@, ai_responses),
                         !.errors =
                             Append(@, <<batch.files[batch.position].filename,
                                         ": ">> \o error.msg),
                         !.logged =
                             Append(@, [level |-> "error",
                                        text  |->
                                            <<batch.files[batch.position]
                                                  .filename,
                                              ": ">> \o error.msg])]
       ELSE batch' = [batch EXCEPT
                         !.position = @ + 1,
                         !.at = "loop",
                         !.answers = Append(@, ai_responses),
                         !.results =
                             Append(@, [filename |->
                                            batch.files[batch.position]
                                                .filename,
                                        analysis |-> result]),
                         !.successful = @ + 1]
    /\ AnalysisLeft
    /\ UNCHANGED <<call, returned>>

\* lines 82-88
BatchReturn ==
    /\ batch # NoValue
    /\ batch.response = NoValue
    /\ batch.at = "loop"
    /\ batch.position > Len(batch.files)
    /\ batch' = [batch EXCEPT
                    !.response =
                        [total_processed |-> Len(batch.files),
                         successful      |-> batch.successful,
                         failed          |-> Len(batch.files)
                                                 - batch.successful,
                         results         |-> batch.results,
                         errors          |-> batch.errors]]
    /\ UNCHANGED <<pipeline_vars, call, returned>>

\* between BatchAnalyze and BatchFile the steps are those of the pipeline
NextBatch ==
    \/ BatchDepends
    \/ BatchRead
    \/ BatchAnalyze
    \/ ValidateImage
    \/ ProcessImage
    \/ \E resp \in BatchDesignCompletions : ExtractReturn(resp)
    \/ \E i \in 1..MaxLocations : StartSubTask(i)
    \/ \E i \in 1..MaxLocations, resp \in BatchMarketCompletions :
           CompleteSubTask(i, resp)
    \/ FanIn
    \/ Aggregate
    \/ \E resp \in BatchRecommendationCompletions : RecommendReturn(resp)
    \/ BatchFile
    \/ BatchReturn

SpecBatch == InitBatch /\ [][NextBatch]_vars

\* what the analysis of file k gives on its own, from the file's bytes and
\* the answers the external model gave during it
OwnOutcome(k) ==
    analyze_tshirt_design(batch.files[k].image_data,
                          location_list(batch.locations), batch.answers[k])

FailedFiles == { k \in DOMAIN batch.answers : IsException(OwnOutcome(k)) }

SucceededFiles == DOMAIN batch.answers \ FailedFiles

\* C18: the batch request never ends in an exception; its summary has
\* total_processed = number of files, successful + failed = total_processed,
\* as many results as successful and as many errors as failed; the filename
\* of each failed file is in exactly one errors entry; and what is recorded
\* for a file is that file's own failure or own analysis, whatever happened
\* to the other files.
C18_BatchSummary ==
    (batch # NoValue /\ batch.response # NoValue) =>
        /\ ~IsException(batch.response)
        /\ batch.response.total_processed = Len(batch.files)
        /\ batch.response.successful + batch.response.failed
               = batch.response.total_processed
        /\ Len(batch.response.results) = batch.response.successful
        /\ Len(batch.response.errors) = batch.response.failed
        /\ batch.response.failed = Cardinality(FailedFiles)
        /\ \A k \in FailedFiles :
               Cardinality({ n \in DOMAIN batch.response.errors :
                                 batch.response.errors[n][1]
                                     = batch.files[k].filename }) = 1
        /\ \A n \in DOMAIN batch.response.errors :
               batch.response.errors[n] =
                   <<batch.files[Nth(FailedFiles, n)].filename, ": ">>
                       \o OwnOutcome(Nth(FailedFiles, n)).msg
        /\ \A n \in DOMAIN batch.response.results :
               batch.response.results[n] =
                   [filename |->
                        batch.files[Nth(SucceededFiles, n)].filename,
                    analysis |-> OwnOutcome(Nth(SucceededFiles, n))]


----------------------------------------------------------------------------
(* Properties of the pipeline, continued *)

\* the sub-tasks whose AI call has been issued and has not completed
InFlight == { i \in DOMAIN analysis_tasks : analysis_tasks[i].state = "running" }

\* the sub-task the event loop starts next, if any
NextToStart(i) ==
    /\ i \in DOMAIN analysis_tasks
    /\ analysis_tasks[i].state = "created"
    /\ \A j \in 1..(i - 1) : analysis_tasks[j].state # "created"

\* C21: the AI call of a sub-task never waits for a sibling's call to
\* complete: while markets are scored, the next sub-task can start whatever
\* the siblings started before it are doing, and every issued market call
\* belongs to a started sub-task.
C21_DispatchNeverWaits ==
    pc = "ScoringMarkets" =>
        /\ \A i \in DOMAIN analysis_tasks :
               NextToStart(i) => ENABLED StartSubTask(i)
        /\ ai_calls.market =
               Cardinality({ i \in DOMAIN analysis_tasks :
                                 analysis_tasks[i].state # "created" })

\* three valid locations, the three market calls in flight at once
C21_Witness ==
    /\ pc = "ScoringMarkets"
    /\ Len(analysis_tasks) = 3
    /\ Cardinality(InFlight) = 3
    /\ ai_calls.market = 3

----------------------------------------------------------------------------
(* _calculate_overall_score on its own *)

\* how many records a call is given at most
MaxRecords == 3

OverallScoreLocations == {"USA", "UK", "Germany"}

OverallScoreValues == {40, 70}

\* what _calculate_overall_score reads of a MarketAnalysis
ScoredRecords ==
    [location : OverallScoreLocations, market_score : OverallScoreValues]

InitOverallScore ==
    /\ PipelineIdle
    /\ call \in { [fn |-> "_calculate_overall_score", market_analyses |-> a] :
                      a \in UNION { [1..n -> ScoredRecords] :
                                        n \in 0..MaxRecords } }
    /\ returned = NoValue
    /\ batch = NoValue

CallOverallScore ==
    /\ call.fn = "_calculate_overall_score"
    /\ returned = NoValue
    /\ returned' = [value |-> _calculate_overall_score(call.market_analyses)]
    /\ UNCHANGED <<pipeline_vars, call, batch>>

NextOverallScore == CallOverallScore

SpecOverallScore == InitOverallScore /\ [][NextOverallScore]_vars

\* the weight the reference entry of a location gives it, in hundredths
TableWeight(location) ==
    (CASE MARKET_DATA[location].market_size = "massive" -> 15
       [] MARKET_DATA[location].market_size = "large" -> 12
       [] MARKET_DATA[location].market_size = "medium" -> 10
       [] MARKET_DATA[location].market_size = "small" -> 8)
    * (CASE MARKET_DATA[location].market_maturity = "growing" -> 13
         [] MARKET_DATA[location].market_maturity = "mature" -> 11
         [] MARKET_DATA[location].market_maturity = "emerging" -> 10)

\* the records a taken in the order p
Reordered(a, p) == [i \in DOMAIN a |-> a[p[i]]]

\* C22: the score returned for a non-empty list of records is the mean of
\* their market scores weighted by the table weights of their locations, to
\* the nearest tenth, and the records taken in any other order give the same
\* score.
C22_WeightedMeanAnyOrder ==
    (call.fn = "_calculate_overall_score" /\ returned # NoValue
         /\ Len(call.market_analyses) > 0) =>
        LET a == call.market_analyses
            W == SumSeq([i \in DOMAIN a |-> TableWeight(a[i].location)])
            S == SumSeq([i \in DOMAIN a |->
                             a[i].market_score * TableWeight(a[i].location)])
        IN  /\ 2 * Abs(returned.value * W - 10 * S) <= W
            /\ \A p \in Permutations(DOMAIN a) :
                   _calculate_overall_score(Reordered(a, p)) = returned.value

----------------------------------------------------------------------------
(* Properties of the pipeline: the confidence score *)

\* min(95, 0.4 * designClarity + 0.4 * marketConsistency
\*          + 0.2 * dataCompleteness) in tenths, rounded, for
\* designClarity = (v + u) / 2 and dataCompleteness = min(1, n/8) * 100;
\* the sum is taken in hundredths
StatedConfidence(v, u, consistency, n) ==
    RoundDiv(Min(9500, 20 * (v + u) + 4 * consistency
                           + 20 * Min(100, (100 * n) \div 8)),
             10)

\* C23: the confidence score of a result is min(95, 0.4 * designClarity
\* + 0.4 * marketConsistency + 0.2 * dataCompleteness) to one decimal, with
\* designClarity the mean of visual appeal and uniqueness, marketConsistency
\* 80.0 for fewer than 2 surviving markets, and dataCompleteness
\* min(1, surviving/8) * 100.
C23_ConfidenceFormula ==
    result # NoValue =>
        result.confidence_score =
            StatedConfidence(
                result.design_features.visual_appeal_score,
                result.design_features.uniqueness_score,
                IF Len(result.market_analysis) < 2 THEN 800
                ELSE _calculate_market_consistency(result.market_analysis),
                Len(result.market_analysis))

----------------------------------------------------------------------------
(* Properties of _analyze_single_market: the ranges of the record *)

\* C24: the MarketAnalysis a sub-task returns, which is the record the
\* AnalysisResult holds for that market, keeps the ranges of the data model
\* whatever the AI answered: market_score and success_probability in 0..100,
\* estimated_monthly_sales >= 0, and a price band with
\* min <= recommended <= max.
C24_RecordInRange ==
    SingleMarketAnswered =>
        /\ returned.market_score \in 0..100
        /\ returned.success_probability \in 0..100
        /\ returned.estimated_monthly_sales >= 0
        /\ returned.price_range.min <= returned.price_range.recommended
        /\ returned.price_range.recommended <= returned.price_range.max

----------------------------------------------------------------------------
(* api/routes/market.py: get_market_insights *)

InsightLocations == DOMAIN MARKET_DATA \cup {"Atlantis", "usa"}

\* what the external model may answer to the trends prompt
TrendObjects ==
    {EmptyObject, JsonArray} \cup
    { [popular_styles |-> s, color_trends |-> c] :
          s \in {<<>>, <<"vintage">>, <<"minimal">>},
          c \in {<<>>, <<"pastel">>, <<"neon">>} }

TrendCompletions ==
    {AIRaises, AINotJson} \cup { Completion("json", o) : o \in TrendObjects }

\* MarketService.get_market_insights (market_service.py 47-65): the summary
\* of the reference entry, or the ValueError of line 51
MarketService_get_market_insights(location) ==
    IF location \notin DOMAIN MARKET_DATA
    THEN Exc("ValueError", <<"Location ", location, " not supported">>)
    ELSE [location            |-> location,
          market_size         |-> MARKET_DATA[location].market_size,
          competition_level   |-> MARKET_DATA[location].competition_level,
          market_maturity     |-> MARKET_DATA[location].market_maturity,
          key_trends          |-> MARKET_DATA[location].trends,
          target_demographics |-> MARKET_DATA[location].demographics,
          seasonal_peaks      |-> MARKET_DATA[location].seasonal_peaks,
          base_price_range    |-> MARKET_DATA[location].base_price_range,
          currency            |-> MARKET_DATA[location].currency]

\* GeminiService.analyze_trends (gemini_service.py 106-134), from the
\* completion on: the parsed JSON value or the AIServiceError it raises
analyze_trends(resp) ==
    IF resp.outcome = "raises"
    THEN Exc("AIServiceError", <<"Trend analysis failed: ", "api error">>)
    ELSE IF IsException(_parse_json_response(resp))
    THEN Exc("AIServiceError",
             <<"Trend analysis failed: ">> \o _parse_json_response(resp).msg)
    ELSE _parse_json_response(resp)

HTTPException(status_code, detail) ==
    [status_code |-> status_code, detail |-> detail]

\* the route's progress: the AI calls it has issued and its response, if any
Route(stage, calls, market_data, response) ==
    [stage |-> stage, ai_calls |-> calls, market_data |-> market_data,
     response |-> response]

InitInsights ==
    /\ PipelineIdle
    /\ call \in { [fn |-> "get_market_insights", location |-> l,
                   gemini_api_key |-> k] :
                      l \in InsightLocations, k \in BOOLEAN }
    /\ returned = NoValue
    /\ batch = NoValue

\* lines 35-42 up to the await: the lookup (ValueError: 404), the
\* construction of GeminiService, which raises ValueError without an API key
\* (gemini_service.py 22-23, answered 404 by line 49), and the trends prompt
\* handed to the external model
InsightsLookup ==
    /\ call.fn = "get_market_insights"
    /\ returned = NoValue
    /\ returned' =
           IF IsException(MarketService_get_market_insights(call.location))
           THEN Route("responded", 0, NoValue,
                      HTTPException(404,
                          MarketService_get_market_insights(call.location).msg))
           ELSE IF ~call.gemini_api_key
           THEN Route("responded", 0, NoValue,
                      HTTPException(404, <<"GEMINI_API_KEY not configured">>))
           ELSE Route("awaiting analyze_trends", 1,
                      MarketService_get_market_insights(call.location),
                      NoValue)
    /\ UNCHANGED <<pipeline_vars, call, batch>>

\* lines 42-53 from the completion of the AI call on: the body of line 44,
\* or the 500 of lines 51-53 when analyze_trends raised
InsightsAnswer(resp) ==
    /\ call.fn = "get_market_insights"
    /\ returned # NoValue
    /\ returned.stage = "awaiting analyze_trends"
    /\ returned' =
           IF IsException(analyze_trends(resp))
           THEN Route("responded", returned.ai_calls, returned.market_data,
                      HTTPException(500, <<"Internal server error">>))
           ELSE Route("responded", returned.ai_calls, returned.market_data,
                      [status_code |-> 200,
                       market_data |-> returned.market_data,
                       ai_insights |-> analyze_trends(resp)])
    /\ UNCHANGED <<pipeline_vars, call, batch>>

NextInsights ==
    \/ InsightsLookup
    \/ \E resp \in TrendCompletions : InsightsAnswer(resp)

SpecInsights == InitInsights /\ [][NextInsights]_vars

\* C25: the market insights of a location are a pure reference lookup: no AI
\* call is ever issued, and the response is the reference summary of a known
\* location and NotFound for an unknown one, whatever the AI would answer.
C25_LookupWithoutAI ==
    (call.fn = "get_market_insights" /\ returned # NoValue) =>
        /\ returned.ai_calls = 0
        /\ returned.stage = "responded"
        /\ IF call.location \in DOMAIN MARKET_DATA
           THEN /\ returned.response.status_code = 200
                /\ returned.response.market_data =
                       MarketService_get_market_insights(call.location)
           ELSE returned.response.status_code = 404

----------------------------------------------------------------------------
(* Properties of the pipeline: the failure log *)

FailedTasks == { i \in DOMAIN analysis_tasks : TaskFailed(i) }

\* the entries logged for failed sub-tasks, in the order they were logged
FailureEntries ==
    SelectSeq(log, LAMBDA entry :
                       /\ entry.level = "error"
                       /\ entry.text[1] = "Market analysis failed for ")

\* the results of the sub-tasks have been gathered and gone through
ResultsFolded ==
    /\ analysis_tasks # <<>>
    /\ GatherReturns(analysis_tasks)
    /\ pc \notin {"ScoringMarkets"}

\* C26: once the results are gone through, there is one failure entry per
\* failed sub-task, in the order of the sub-tasks, and the location it names
\* is the location that sub-task was created for.
C26_FailureLogNamesSubTask ==
    ResultsFolded =>
        /\ Len(FailureEntries) = Cardinality(FailedTasks)
        /\ \A k \in 1..Len(FailureEntries) :
               FailureEntries[k].text[2] =
                   analysis_tasks[Nth(FailedTasks, k)].location

----------------------------------------------------------------------------
(* utils/validators.py: validate_locations; a location text is the sequence
   of its characters *)

\* how many locations a list names at most
MaxListed == 2

LowerCase ==
    <<"a", "b", "c", "d", "e", "f", "g", "h", "i", "j", "k", "l", "m",
      "n", "o", "p", "q", "r", "s", "t", "u", "v", "w", "x", "y", "z">>

UpperCase ==
    <<"A", "B", "C", "D", "E", "F", "G", "H", "I", "J", "K", "L", "M",
      "N", "O", "P", "Q", "R", "S", "T", "U", "V", "W", "X", "Y", "Z">>

\* str.upper()
upper(text) ==
    [i \in DOMAIN text |->
         IF \E n \in DOMAIN LowerCase : LowerCase[n] = text[i]
         THEN UpperCase[CHOOSE n \in DOMAIN LowerCase : LowerCase[n] = text[i]]
         ELSE text[i]]

RECURSIVE Join(_)
\* the string of a sequence of characters
Join(text) == IF text = <<>> THEN "" ELSE Head(text) \o Join(Tail(text))

LocationTexts ==
    { <<"U", "S", "A">>, <<"u", "s", "a">>, <<" ", "U", "S", "A", " ">>,
      <<"U", "K">>, <<"I", "n", "d", "i", "a">>, <<"I", "N", "D", "I", "A">>,
      <<"G", "e", "r", "m", "a", "n", "y">>, <<"J", "a", "p", "a", "n">>,
      <<"A", "t", "l", "a", "n", "t", "i", "s">> }

\* MARKET_DATA.keys(), in the order of the table
MarketDataKeys ==
    <<"USA", "India", "UK", "Germany", "Japan", "Brazil", "Australia",
      "Canada">>

IsMarketDataKey(location) == location \in DOMAIN MARKET_DATA

IsNoMarketDataKey(location) == location \notin DOMAIN MARKET_DATA

\* lines 22-32 for the cleaned locations of lines 15-20
ValidatedOrError(valid_locations, invalid_locations) ==
    IF invalid_locations # <<>>
    THEN Exc("ValidationError",
             <<"Invalid locations: ">> \o invalid_locations
                 \o <<". Available: ">> \o MarketDataKeys)
    ELSE IF valid_locations = <<>>
    THEN Exc("ValidationError", <<"At least one valid location is required">>)
    ELSE [value |-> valid_locations]

\* validate_locations: the cleaned list or the ValidationError raised
validate_locations(locs) ==
    ValidatedOrError(
        SelectSeq([i \in DOMAIN locs |->
                       Join(upper(strip(locs[i])))],
                  IsMarketDataKey),
        SelectSeq([i \in DOMAIN locs |->
                       Join(upper(strip(locs[i])))],
                  IsNoMarketDataKey))

InitValidate ==
    /\ PipelineIdle
    /\ call \in { [fn |-> "validate_locations", locations |-> l] :
                      l \in UNION { [1..n -> LocationTexts] :
                                        n \in 0..MaxListed } }
    /\ returned = NoValue
    /\ batch = NoValue

CallValidate ==
    /\ call.fn = "validate_locations"
    /\ returned = NoValue
    /\ returned' = validate_locations(call.locations)
    /\ UNCHANGED <<pipeline_vars, call, batch>>

NextValidate == CallValidate

SpecValidate == InitValidate /\ [][NextValidate]_vars

\* every location of the list is a key of the reference table as given
AllReferenceCodes(locs) ==
    /\ locs # <<>>
    /\ \A i \in DOMAIN locs : Join(locs[i]) \in DOMAIN MARKET_DATA

\* C27: a non-empty list whose entries are all keys of MARKET_DATA is
\* returned without a ValidationError, and a ValidationError is raised only
\* for an empty list or a list with an entry that is not a key.
C27_AcceptsReferenceCodes ==
    (call.fn = "validate_locations" /\ returned # NoValue) =>
        /\ AllReferenceCodes(call.locations) =>
               /\ ~IsException(returned)
               /\ returned.value =
                      [i \in DOMAIN call.locations |->
                           Join(call.locations[i])]
        /\ IsException(returned) =>
               /\ returned.kind = "ValidationError"
               /\ ~AllReferenceCodes(call.locations)

----------------------------------------------------------------------------
(* Termination of analyze_tshirt_design *)

\* the steps the event loop takes by itself: they follow from the code and
\* the loop's scheduling of ready coroutines
Scheduled ==
    \/ ValidateImage
    \/ ProcessImage
    \/ \E i \in 1..MaxLocations : StartSubTask(i)
    \/ FanIn
    \/ Aggregate

\* The pipeline when every step that can be taken is eventually taken: the
\* event loop runs what is ready, and every external AI call that has been
\* issued eventually returns or raises.
FairSpec ==
    /\ Spec
    /\ WF_vars(Scheduled)
    /\ WF_vars(\E resp \in DesignCompletions : ExtractReturn(resp))
    /\ \A i \in 1..MaxLocations :
           WF_vars(\E resp \in MarketCompletions : CompleteSubTask(i, resp))
    /\ WF_vars(\E resp \in RecommendationCompletions : RecommendReturn(resp))

\* the analysis waits for AI calls only: the design call, the recommendation
\* call, or market calls with every sub-task started
AwaitingAI ==
    \/ pc \in {"ExtractingFeatures", "Recommending"}
    \/ /\ pc = "ScoringMarkets"
       /\ InFlight # {}
       /\ \A i \in DOMAIN analysis_tasks :
              analysis_tasks[i].state # "created"

\* C28: when every AI call issued eventually returns or raises, the analysis
\* eventually is Done or Failed, whatever the locations and the failures;
\* once every sub-task has finished the gather does not keep waiting; and
\* while the analysis waits for an AI call nothing else can end the wait:
\* there is no timeout and no cancellation.
C28_Terminates ==
    /\ <>Terminated
    /\ (pc = "ScoringMarkets" /\ GatherReturns(analysis_tasks))
           ~> (pc # "ScoringMarkets")
    /\ [](AwaitingAI => ~ENABLED Scheduled)

\* an analysis has ended Done although one of its market calls failed
C28_Witness ==
    /\ pc = "Done"
    /\ result # NoValue
    /\ FailedTasks # {}
    /\ SucceededTasks # {}

============================================================================
